---- MODULE Spec2Model ----
(***************************************************************************)
(* A model of dynamo/tools/estimation_kinetic.py: the kinetic_estimation   *)
(* base class (parameter/bound manager, sampler, multi-start least-squares *)
(* fit, chi-square test) around an external simulator and an external      *)
(* bounded least-squares solver.                                           *)
(*                                                                         *)
(* Numbers.  Parameter values are exact rationals on a grid: every range   *)
(* bound is a multiple of Grid, a point of the unit interval is k/Grid (k in        *)
(* 0..Grid), so r*(high-low)+low is again an integer.  NaN, the "not       *)
(* fixed" sentinel of fixed_parameters, is the value NaN (-1); no range    *)
(* bound and no free value is NaN.                                         *)
(***************************************************************************)
EXTENDS Integers, Sequences, FiniteSets, TLC

\* ------------------------------------------------------------- bounds
Grid == 2
MaxKin == 2
MaxStarts == 2
MaxEvals == 2
MaxT == 3
MaxFits == 1
MaxCalls == 1

MaxX0 == MaxKin - 1
NaN == -1

\* ------------------------------------------------------------ helpers
IsNan(x) == x = NaN

Min(a, b) == IF a <= b THEN a ELSE b

RECURSIVE NanCount(_)
NanCount(p) ==
    IF p = <<>> THEN 0
    ELSE (IF IsNan(Head(p)) THEN 1 ELSE 0) + NanCount(Tail(p))

RECURSIVE SumSeq(_)
SumSeq(s) == IF s = <<>> THEN 0 ELSE Head(s) + SumSeq(Tail(s))

Range(s) == {s[i] : i \in DOMAIN s}

SeqsOfLen(S, n) == [1..n -> S]

SeqsUpTo(S, lo, hi) == UNION {SeqsOfLen(S, n) : n \in lo..hi}

\* python slices v[:k] and v[k:]
Prefix(v, k) == SubSeq(v, 1, Min(k, Len(v)))

Suffix(v, k) == SubSeq(v, k + 1, Len(v))

\* --------------------------------------------------------- input sets
\* A range is [low, low + width]: width 0 is a fixed parameter.
Lows == {0, Grid}

Widths == {0, Grid}

RangePairs == {<<lo, lo + w>> : lo \in Lows, w \in Widths}

ParamRangeSeqs == SeqsUpTo(RangePairs, 1, MaxKin)

X0RangeSeqs == SeqsUpTo(RangePairs, 0, MaxX0)

FreeVals == 0..Grid

\* ---------------------------------------------------- option values
NonePopt == [none |-> TRUE, val |-> <<>>]

NoneCost == [none |-> TRUE, val |-> 0]

Some(v) == [none |-> FALSE, val |-> v]

\* ------------------------------------------------------------- state
VARIABLES
    initialized,        \* kinetic_estimation.__init__ has run on the object
    param_ranges,       \* the constructor's arguments, kept to state claims
    x0_ranges,
    fixed_parameters,   \* self.fixed_parameters (NaN: not fixed)
    ranges,             \* self.ranges, the rows of the free parameters
    n_tot_kin_params,
    n_kin_params,
    n_params,
    popt,               \* self.popt, NonePopt or Some(vector)
    cost,               \* self.cost, NoneCost or Some(number)
    simulator,          \* the simulator object the estimator holds
    pc,                 \* position inside fit_lsq, "idle" between calls
    fit,                \* the locals of the running (or just returned) fit_lsq
    ret,                \* the outcome of the last call: op, raised, val
    fitted,             \* ghost: the number of fit_lsq calls that have returned
    ncalls,             \* ghost: the number of manager calls made (see Idle)
    sub,                \* the attributes a specialized estimator class adds
    guess,              \* ghost: the heuristic estimates of the last auto_fit
    gof                 \* a GoodnessOfFit evaluator: mean, sigm, pred

vars == <<initialized, param_ranges, x0_ranges, fixed_parameters, ranges,
          n_tot_kin_params, n_kin_params, n_params, popt, cost, simulator,
          pc, fit, ret, fitted, ncalls, sub, guess, gof>>

estVars == <<initialized, param_ranges, x0_ranges, fixed_parameters, ranges,
             n_tot_kin_params, n_kin_params, n_params>>

\* What no method of kinetic_estimation itself touches.
objVars == <<sub, guess, gof>>

\* ------------------------------------------- kinetic_estimation.__init__
IsFixedRange(r) == r[1] = r[2]

IsFreeRange(r) == ~IsFixedRange(r)

\* The slot of fixed_parameters that row i (1-based) of a loop writes.
FixedSlotNoOffset(i, offset) == i

FixedSlot(i, offset) == i + offset

\* One loop of __init__ over the rows rs (lines 48-52 with offset 0, lines
\* 56-60 with offset n_tot_kin_params): a fixed row is recorded in its slot,
\* a free row is appended to ranges.
RECURSIVE InitLoop(_, _, _, _)
InitLoop(rs, offset, i, acc) ==
    IF i > Len(rs) THEN acc
    ELSE IF IsFixedRange(rs[i])
         THEN InitLoop(rs, offset, i + 1,
                  [acc EXCEPT !.fixed_parameters[FixedSlot(i, offset)] = rs[i][1]])
         ELSE InitLoop(rs, offset, i + 1,
                  [acc EXCEPT !.ranges = Append(@, rs[i])])

\* n_kin_params as line 54 sets it, after the first loop only.
NKinParamsTotal(n_tot, rangesAfterKin) == n_tot

NKinParams(n_tot, rangesAfterKin) == Len(rangesAfterKin)

Construct(pr, xr) ==
    LET s0 == [fixed_parameters |-> [k \in 1..(Len(pr) + Len(xr)) |-> NaN],
               ranges |-> <<>>]
        s1 == InitLoop(pr, 0, 1, s0)
        ntot == Len(pr)
        nkin == NKinParams(ntot, s1.ranges)
        s2 == InitLoop(xr, ntot, 1, s1)
    IN  [fixed_parameters |-> s2.fixed_parameters,
         ranges |-> s2.ranges,
         n_tot_kin_params |-> ntot,
         n_kin_params |-> nkin,
         n_params |-> Len(s2.ranges)]

\* ----------------------------------------------- parameter/bound manager
\* p[np.isnan(p)] = vals, for vals with one entry per NaN slot: the NaN
\* slots are filled in increasing index order.
RECURSIVE Fill(_, _)
Fill(p, vals) ==
    IF p = <<>> THEN <<>>
    ELSE IF IsNan(Head(p)) /\ vals # <<>>
         THEN <<Head(vals)>> \o Fill(Tail(p), Tail(vals))
         ELSE <<Head(p)>> \o Fill(Tail(p), vals)

\* numpy accepts the masked assignment when vals has one entry per selected
\* slot, or a single entry (broadcast); otherwise it raises ValueError.
MaskAssignOK(p, vals) == Len(vals) = NanCount(p) \/ Len(vals) = 1

MaskAssign(p, vals) ==
    IF Len(vals) = 1 /\ NanCount(p) # 1
    THEN [k \in 1..Len(p) |-> IF IsNan(p[k]) THEN vals[1] ELSE p[k]]
    ELSE Fill(p, vals)

KinFreeSlice(unfixed_params) == Prefix(unfixed_params, n_kin_params)

X0FreeSliceTot(unfixed_params) == Suffix(unfixed_params, n_tot_kin_params)

X0FreeSlice(unfixed_params) == Suffix(unfixed_params, n_kin_params)

FixedKin == Prefix(fixed_parameters, n_tot_kin_params)

FixedX0 == Suffix(fixed_parameters, n_tot_kin_params)

assemble_kin_params(unfixed_params) ==
    MaskAssign(FixedKin, KinFreeSlice(unfixed_params))

assemble_x0(unfixed_params) ==
    MaskAssign(FixedX0, X0FreeSlice(unfixed_params))

assemble_kin_ok(unfixed_params) ==
    MaskAssignOK(FixedKin, KinFreeSlice(unfixed_params))

assemble_x0_ok(unfixed_params) ==
    MaskAssignOK(FixedX0, X0FreeSlice(unfixed_params))

\* get_bound(axis): axis 0 is the low bound, axis 1 the high bound.
get_bound(axis) == [i \in 1..n_params |-> ranges[i][axis + 1]]

\* ---------------------------------------------------------------- sampler
\* utils.lhsclassic(samples, n): a Latin Hypercube design in [0,1]^n, as
\* numerators over Grid: in every column each stratum
\* [s/samples, (s+1)/samples] holds exactly one sample.
InStratum(k, s, samples) == s * Grid <= k * samples /\ k * samples <= (s + 1) * Grid

Perms(n) == {f \in [1..n -> 0..(n - 1)] : \A a, b \in 1..n : f[a] = f[b] => a = b}

\* The columns of a design of `samples` points: one point per stratum.
LhsColumns ==
    [samples \in 1..MaxStarts |->
        {col \in [1..samples -> 0..Grid] :
            \E f \in Perms(samples) :
                \A r \in 1..samples : InStratum(col[r], f[r], samples)}]

lhsclassic(samples, n) ==
    {H \in [1..samples -> [1..n -> 0..Grid]] :
        \A j \in 1..n : [r \in 1..samples |-> H[r][j]] \in LhsColumns[samples]}

\* np.random.rand(): a point of [0, 1), as a numerator over Grid.
RandUnit == 0..(Grid - 1)

\* r * (high - low) + low for column i, r = k/Grid (lines 71 and 76).
RescaleNoLow(k, i) == (k * (ranges[i][2] - ranges[i][1])) \div Grid

Rescale(k, i) == (k * (ranges[i][2] - ranges[i][1])) \div Grid + ranges[i][1]

\* The values column i of sample_p0(samples, method) can take: a column of
\* the unit design, rescaled into the i-th free range.
SampleColumns(samples, method, i) ==
    LET U == IF method = "lhs"
             THEN {[r \in 1..samples |-> H[r][1]] : H \in lhsclassic(samples, 1)}
             ELSE [1..samples -> RandUnit]
    IN  {[r \in 1..samples |-> Rescale(col[r], i)] : col \in U}

\* The matrices sample_p0(samples, method) can return.
sample_p0(samples, method) ==
    LET U == IF method = "lhs"
             THEN lhsclassic(samples, n_params)
             ELSE [1..samples -> [1..n_params -> RandUnit]]
    IN  {[r \in 1..samples |-> [i \in 1..n_params |-> Rescale(H[r][i], i)]] : H \in U}

\* ------------------------------------------------------------- simulator
\* The simulator capability: methods, default_method, set_params, integrate,
\* and the solved trajectory x.  The trajectory is a function of the
\* parameters and initial conditions set on it and of t.
SimMethods == <<"numerical", "matrix">>

SimDefaultMethod == "matrix"

MethodsKinds == {"list", "set"}

\* id: the identity of the simulator object; is_class: the object is a
\* simulator class, not an instance of one; parts: the identities of the
\* sub-model objects a mixture simulator holds; unstable: the model is
\* numerically unstable and its solution is NaN at every positive time.
NewSimulator(kind) ==
    [methods_kind |-> kind, params |-> <<>>, x0 |-> <<>>, x |-> <<>>,
     method |-> "unset", id |-> 0, is_class |-> FALSE, parts |-> {},
     unstable |-> FALSE]

\* The number of species: one per initial condition (one when there is none).
NSpecies(x0) == IF Len(x0) = 0 THEN 1 ELSE Len(x0)

\* The solved trajectory, species after species (x.T flattened).
Traj(params, x0, t) ==
    [k \in 1..(NSpecies(x0) * Len(t)) |->
        LET sp == ((k - 1) \div Len(t)) + 1
            j == ((k - 1) % Len(t)) + 1
        IN  SumSeq(params) * t[j] + (IF Len(x0) = 0 THEN 0 ELSE x0[sp])]

\* The trajectory an unstable model yields.
NanTraj(x0, t) ==
    [k \in 1..(NSpecies(x0) * Len(t)) |->
        LET sp == ((k - 1) \div Len(t)) + 1
            j == ((k - 1) % Len(t)) + 1
        IN  IF t[j] > 0 THEN NaN ELSE (IF Len(x0) = 0 THEN 0 ELSE x0[sp])]

\* set_params that sets nothing.
set_params_skip(sim, params) == sim

set_params(sim, params) == [sim EXCEPT !.params = params]

\* integrate(t, x0, method); x0 = None keeps the simulator's own x0.
integrate(sim, t, x0, method) ==
    LET x0_ == IF x0.none THEN sim.x0 ELSE x0.val
    IN  [sim EXCEPT !.x0 = x0_,
                    !.x = IF sim.unstable THEN NanTraj(x0_, t)
                          ELSE Traj(sim.params, x0_, t),
                    !.method = method]

\* simulator.methods[0]: a set is not subscriptable (TypeError).
MethodsIndex0Raises(sim) ==
    IF sim.methods_kind = "set" THEN "TypeError"
    ELSE IF SimMethods = <<>> THEN "IndexError" ELSE "none"

\* ------------------------------------------------------------ input sets
TimeSeqs == SeqsUpTo(0..1, 1, MaxT)

Samplers == {"lhs", "random"}

FreeVectors(n) == SeqsOfLen(FreeVals, n)

\* --------------------------------------------------------------- results
Ok(op, v) == [op |-> op, raised |-> "none", args |-> <<>>, val |-> v]

OkCall(op, a, v) == [op |-> op, raised |-> "none", args |-> a, val |-> v]

Raised(op, e) == [op |-> op, raised |-> e, args |-> <<>>, val |-> <<>>]

RaisedCall(op, a, e) == [op |-> op, raised |-> e, args |-> a, val |-> <<>>]

NoFit == [active |-> FALSE]

\* ------------------------------------------------------ residual (f_lsq)
\* 100 * ln(x + 1), rounded, for x = 0, 1, 2, ...
Log1pTab ==
    <<0, 69, 110, 139, 161, 179, 195, 208, 220, 230, 240, 248, 256, 264, 271,
      277, 283, 289, 294, 300, 304, 309, 314, 318, 322, 326, 330, 333, 337,
      340, 343, 347, 350, 353, 356, 358, 361, 364, 366, 369, 371, 374, 376,
      378, 381, 383, 385, 387, 389, 391, 393, 395, 397, 399, 401, 403, 404,
      406, 408, 409, 411, 413, 414, 416>>

Log1p(x) == IF IsNan(x) THEN NaN ELSE Log1pTab[x + 1]

normalize_data(X) == [j \in 1..Len(X) |-> Log1p(X[j])]

NanToZero(X) == [j \in 1..Len(X) |-> IF IsNan(X[j]) THEN 0 ELSE X[j]]

\* simulator.x.T: for the one-species trajectory, the trajectory itself.
extract_data_from_simulator(sim) == sim.x

RECURSIVE SumSq(_)
SumSq(r) == IF r = <<>> THEN 0 ELSE Head(r) * Head(r) + SumSq(Tail(r))

\* f_lsq with the trajectory read before set_params and integrate have run:
\* the residual of whatever the simulator held.
f_lsq_stale(params, t, x_data, method, normalize) ==
    LET raw == IF Len(simulator.x) = Len(x_data) THEN simulator.x
               ELSE [j \in 1..Len(x_data) |-> 0]
        pred == NanToZero(IF normalize THEN normalize_data(raw) ELSE raw)
        sim2 == integrate(set_params(simulator, assemble_kin_params(params)),
                          t, Some(assemble_x0(params)), SimDefaultMethod)
    IN  IF MethodsIndex0Raises(simulator) # "none"
           \/ ~(assemble_kin_ok(params) /\ assemble_x0_ok(params))
        THEN [raised |-> "ValueError", sim |-> simulator, resid |-> <<>>,
              warned |-> FALSE, method |-> method]
        ELSE [raised |-> "none", sim |-> sim2,
              resid |-> [j \in 1..Len(pred) |-> pred[j] - x_data[j]],
              warned |-> FALSE, method |-> method]

\* One evaluation of f_lsq on the current simulator: the exception it
\* raises (or "none"), the simulator afterwards, the flattened residual,
\* and whether the unsupported-method warning was issued.
f_lsq(params, t, x_data, method, normalize) ==
    LET m0 == IF method = "None" THEN SimDefaultMethod ELSE method
        unsupported == m0 \notin Range(SimMethods)
        warnErr == IF unsupported /\ MethodsIndex0Raises(simulator) # "none"
                   THEN MethodsIndex0Raises(simulator)
                   ELSE IF assemble_kin_ok(params) /\ assemble_x0_ok(params)
                        THEN "none" ELSE "ValueError"
        m1 == IF unsupported THEN SimDefaultMethod ELSE m0
        sim1 == set_params(simulator, assemble_kin_params(params))
        x0 == assemble_x0(params)
        sim2 == integrate(sim1, t, Some(x0), m1)
        raw == extract_data_from_simulator(sim2)
        pred == NanToZero(IF normalize THEN normalize_data(raw) ELSE raw)
        \* without normalization `ret` is a view of simulator.x, and the
        \* NaN replacement of line 134 writes through it
        sim3 == IF normalize THEN sim2 ELSE [sim2 EXCEPT !.x = pred]
    IN  IF warnErr # "none"
        THEN [raised |-> warnErr, sim |-> simulator, resid |-> <<>>,
              warned |-> FALSE, method |-> m0]
        ELSE [raised |-> "none", sim |-> sim3,
              resid |-> [j \in 1..Len(pred) |-> pred[j] - x_data[j]],
              warned |-> unsupported, method |-> m1]

\* least_squares' cost is 0.5 * sum(f**2); the model keeps twice that.
CostOf(resid) == SumSq(resid)

\* --------------------------------------------------------------- fit_lsq
\* np.argmin(costs): a scan that keeps the first minimal index (1-based).
RECURSIVE ArgScanLast(_, _, _)
ArgScanLast(costs, i, best) ==
    IF i > Len(costs) THEN best
    ELSE ArgScanLast(costs, i + 1, IF costs[i] <= costs[best] THEN i ELSE best)

RECURSIVE ArgScan(_, _, _)
ArgScan(costs, i, best) ==
    IF i > Len(costs) THEN best
    ELSE ArgScan(costs, i + 1, IF costs[i] < costs[best] THEN i ELSE best)

argmin_last(costs) == ArgScanLast(costs, 2, 1)

argmin(costs) == ArgScan(costs, 2, 1)

\* lines 155-160: the starting points and their number.
FitNP0Min(p0given, p0rows, n_p0) == Min(n_p0, Len(p0rows))

FitNP0(p0given, p0rows, n_p0) == IF p0given THEN Len(p0rows) ELSE n_p0

\* lines 164-165: the box constraints.
FitBounds(boundsarg) ==
    IF boundsarg.none THEN <<get_bound(0), get_bound(1)>> ELSE boundsarg.val

\* The inputs of the modelled fit_lsq calls.
FitT == <<0, 1>>

FitData ==
    {[k \in 1..(NSpecies(x0_ranges) * Len(FitT)) |->
        Grid * (((k - 1) % Len(FitT)) + 1)]}

CallerBox == <<[i \in 1..n_params |-> 0], [i \in 1..n_params |-> 3 * Grid]>>

NoBounds == [none |-> TRUE, val |-> <<>>]

\* bounds, method and normalize of the modelled calls: the defaults, and each
\* argument away from its default.
FitOptions ==
    {[bounds |-> NoBounds, method |-> "None", normalize |-> TRUE],
     [bounds |-> NoBounds, method |-> "bogus", normalize |-> TRUE],
     [bounds |-> Some(CallerBox), method |-> "numerical", normalize |-> FALSE]}

ExplicitStarts == {get_bound(0), get_bound(1)}

\* The points the solver may try inside its box, besides the start.
Trials(bounds) == {bounds[2]}

\* fit_lsq up to the loop (lines 155-168).
FitEnter(x_data, p0given, p0kind, p0rows, n_p0arg, boundsarg, sample_method, method, normalize) ==
    /\ fit' = [active |-> TRUE, done |-> FALSE,
               x_data |-> IF normalize THEN normalize_data(x_data) ELSE x_data,
               method |-> method, normalize |-> normalize,
               p0 |-> p0rows,
               n_p0 |-> FitNP0(p0given, p0rows, n_p0arg),
               bounds |-> FitBounds(boundsarg),
               costs |-> [k \in 1..FitNP0(p0given, p0rows, n_p0arg) |-> 0],
               X |-> <<>>, i |-> 1,
               cur |-> [x |-> <<>>, cost |-> 0], nevals |-> 0,
               args |-> [p0kind |-> p0kind, n_p0 |-> n_p0arg,
                         bounds |-> boundsarg, sample_method |-> sample_method,
                         x_data |-> x_data],
               old_popt |-> popt, old_cost |-> cost,
               starts |-> <<>>, used_bounds |-> <<>>, warned |-> FALSE]
    /\ pc' = "solve"
    /\ ret' = Ok("fit_lsq", <<>>)
    /\ UNCHANGED <<estVars, objVars, popt, cost, simulator, fitted, ncalls>>

\* An exception leaves fit_lsq: `where` is the call that raised it.
FitRaise(e, where, method) ==
    /\ pc' = "idle"
    /\ ret' = RaisedCall("fit_lsq", [where |-> where, method |-> method], e)
    /\ fit' = NoFit
    /\ UNCHANGED <<estVars, objVars, popt, cost, fitted, ncalls>>

\* fit_lsq(t, x_data, p0=None, n_p0, bounds, sample_method, method, normalize)
FitBeginSampled ==
    /\ pc = "idle" /\ initialized /\ fitted < MaxFits
    /\ \E x_data \in FitData, n \in 1..MaxStarts, sm \in Samplers, o \in FitOptions :
          \E rows \in sample_p0(n, sm) :
              FitEnter(x_data, FALSE, "none", rows, n, o.bounds, sm, o.method,
                       o.normalize)

\* fit_lsq with a one-dimensional p0: p0 = [p0]
FitBeginP0Vector ==
    /\ pc = "idle" /\ initialized /\ fitted < MaxFits
    /\ \E x_data \in FitData, n \in 1..MaxStarts, v \in ExplicitStarts,
          o \in FitOptions :
          FitEnter(x_data, TRUE, "1d", <<v>>, n, o.bounds, "lhs", o.method,
                   o.normalize)

\* fit_lsq with a two-dimensional p0: one start per row
FitBeginP0Matrix ==
    /\ pc = "idle" /\ initialized /\ fitted < MaxFits
    /\ \E x_data \in FitData, n \in 1..MaxStarts,
          rows \in SeqsUpTo(ExplicitStarts, 1, MaxStarts), o \in FitOptions :
          FitEnter(x_data, TRUE, "2d", rows, n, o.bounds, "lhs", o.method,
                   o.normalize)

\* fit_lsq on an object whose base constructor never ran: self.sample_p0 /
\* self.get_bound read attributes that do not exist.
FitUninitialized ==
    /\ pc = "idle" /\ ~initialized /\ ret.op # "fit_lsq"
    /\ FitRaise("AttributeError", "fit_lsq", "None")
    /\ UNCHANGED simulator

\* least_squares(fun, p0[i], bounds): the first evaluation, at the start.
LsqStart ==
    /\ pc = "solve"
    /\ ~simulator.is_class
    /\ LET r == f_lsq(fit.p0[fit.i], FitT, fit.x_data, fit.method, fit.normalize)
       IN  IF r.raised # "none"
           THEN FitRaise(r.raised, "f_lsq", fit.method) /\ simulator' = r.sim
           ELSE /\ simulator' = r.sim
                /\ fit' = [fit EXCEPT !.cur = [x |-> fit.p0[fit.i],
                                               cost |-> CostOf(r.resid)],
                                      !.nevals = 1,
                                      !.starts = Append(@, fit.p0[fit.i]),
                                      !.used_bounds = Append(@, fit.bounds),
                                      !.warned = r.warned]
                /\ pc' = "solving"
                /\ UNCHANGED <<estVars, objVars, popt, cost, ret, fitted, ncalls>>

\* A further evaluation of the residual by the solver, at a point of its box;
\* the solver keeps the best point it has seen.
LsqEval ==
    /\ pc = "solving"
    /\ fit.nevals < MaxEvals
    /\ \E p \in Trials(fit.bounds) :
          LET r == f_lsq(p, FitT, fit.x_data, fit.method, fit.normalize)
              c == CostOf(r.resid)
          IN  /\ simulator' = r.sim
              /\ fit' = [fit EXCEPT !.cur = IF c < fit.cur.cost
                                            THEN [x |-> p, cost |-> c] ELSE @,
                                    !.nevals = @ + 1]
    /\ UNCHANGED <<estVars, objVars, popt, cost, pc, ret, fitted, ncalls>>

\* The solver is handed a problem with no free dimension: scipy is not part
\* of the repository, and whether it accepts an empty x0 is left open.
LsqDegenerateRaise ==
    /\ pc = "solving"
    /\ n_params = 0
    /\ FitRaise("ValueError", "least_squares", fit.method)
    /\ UNCHANGED simulator

\* least_squares returns; lines 171-172.
LsqReturn ==
    /\ pc = "solving"
    /\ fit' = [fit EXCEPT !.costs[fit.i] = fit.cur.cost,
                          !.X = Append(@, fit.cur.x),
                          !.i = @ + 1]
    /\ pc' = IF fit.i = fit.n_p0 THEN "select" ELSE "solve"
    /\ UNCHANGED <<estVars, objVars, popt, cost, simulator, ret, fitted, ncalls>>

\* The selection that stores the best start's popt with the last start's cost.
FitSelectLastCost ==
    /\ pc = "select"
    /\ LET i_min == argmin(fit.costs)
       IN  /\ popt' = Some(fit.X[i_min])
           /\ cost' = Some(fit.costs[Len(fit.costs)])
           /\ ret' = Ok("fit_lsq", <<fit.X[i_min], fit.costs[Len(fit.costs)]>>)
    /\ fit' = [fit EXCEPT !.done = TRUE]
    /\ pc' = "idle"
    /\ fitted' = fitted + 1
    /\ UNCHANGED <<estVars, objVars, simulator, ncalls>>

\* lines 173-176.
FitSelect ==
    /\ pc = "select"
    /\ LET i_min == argmin(fit.costs)
       IN  /\ popt' = Some(fit.X[i_min])
           /\ cost' = Some(fit.costs[i_min])
           /\ ret' = Ok("fit_lsq", <<fit.X[i_min], fit.costs[i_min]>>)
    /\ fit' = [fit EXCEPT !.done = TRUE]
    /\ pc' = "idle"
    /\ fitted' = fitted + 1
    /\ UNCHANGED <<estVars, objVars, simulator, ncalls>>

\* ------------------------------------------------- calls between the fits
\* A call that touches neither the estimator's fields nor the simulator.
PureCall(r) ==
    /\ ret' = r
    /\ fit' = NoFit
    /\ UNCHANGED <<estVars, objVars, popt, cost, simulator, pc, fitted>>

\* The calls with many possible arguments and results are followed up to
\* MaxCalls of them in a run.
Idle == pc = "idle" /\ ncalls < MaxCalls

ManagerCall(r) == PureCall(r) /\ ncalls' = ncalls + 1

AccessorCall(r) == PureCall(r) /\ UNCHANGED ncalls

SampleP0Call ==
    /\ Idle
    /\ \E samples \in 1..MaxStarts, method \in Samplers :
          IF ~initialized
          THEN ManagerCall(RaisedCall("sample_p0", <<samples, method>>, "AttributeError"))
          ELSE \E M \in sample_p0(samples, method) :
                  ManagerCall(OkCall("sample_p0", <<samples, method>>, M))

GetBoundCall ==
    /\ Idle
    /\ \E axis \in {0, 1} :
          IF ~initialized
          THEN ManagerCall(RaisedCall("get_bound", axis, "AttributeError"))
          ELSE ManagerCall(OkCall("get_bound", axis, get_bound(axis)))

AssembleKinCall ==
    /\ Idle
    /\ IF ~initialized
       THEN ManagerCall(Raised("assemble_kin_params", "AttributeError"))
       ELSE \E v \in FreeVectors(n_params) :
               IF assemble_kin_ok(v)
               THEN ManagerCall(OkCall("assemble_kin_params", v, assemble_kin_params(v)))
               ELSE ManagerCall(RaisedCall("assemble_kin_params", v, "ValueError"))

AssembleX0Call ==
    /\ Idle
    /\ IF ~initialized
       THEN ManagerCall(Raised("assemble_x0", "AttributeError"))
       ELSE \E v \in FreeVectors(n_params) :
               IF assemble_x0_ok(v)
               THEN ManagerCall(OkCall("assemble_x0", v, assemble_x0(v)))
               ELSE ManagerCall(RaisedCall("assemble_x0", v, "ValueError"))

\* get_opt_kin_params (lines 112-116); `self.popt` does not exist on an object
\* whose base constructor never ran.
get_opt_kin_params(op) ==
    IF ~initialized THEN Raised(op, "AttributeError")
    ELSE IF ~popt.none THEN Ok(op, Some(assemble_kin_params(popt.val)))
    ELSE Ok(op, NonePopt)

get_opt_x0_params(op) ==
    IF ~initialized THEN Raised(op, "AttributeError")
    ELSE IF ~popt.none THEN Ok(op, Some(assemble_x0(popt.val)))
    ELSE Ok(op, NonePopt)

GetOptKinParams == pc = "idle" /\ AccessorCall(get_opt_kin_params("get_opt_kin_params"))

GetOptX0Params == pc = "idle" /\ AccessorCall(get_opt_x0_params("get_opt_x0_params"))

\* export_parameters (lines 178-179)
ExportParameters == pc = "idle" /\ AccessorCall(get_opt_kin_params("export_parameters"))

\* test_chi2 (lines 190-229): df; the statistic and the p-value are floating
\* point numbers the model does not compute.
UniqueCount(t) == Cardinality(Range(t))

DfRaw(t) == Len(t) - n_params - 1

Df(t) == UniqueCount(t) - n_params - 1

TestChi2 ==
    /\ Idle
    /\ \E t \in TimeSeqs, method \in Range(SimMethods) :
          IF ~initialized
          THEN /\ ret' = RaisedCall("test_chi2", t, "AttributeError")
               /\ UNCHANGED simulator
          ELSE /\ simulator' = integrate(simulator, t, NonePopt, method)
               /\ ret' = OkCall("test_chi2", t, Df(t))
    /\ fit' = NoFit
    /\ ncalls' = ncalls + 1
    /\ UNCHANGED <<estVars, objVars, popt, cost, pc, fitted>>

\* ------------------------------------------------------------------ spec
\* kinetic_estimation itself adds no attribute; Estimation_DeterministicDeg()
\* sets kin_param_keys before it decides not to initialize (line 253).
BaseClass ==
    [cls |-> "kinetic_estimation", kin_param_keys |-> <<>>, models |-> <<>>,
     param_distributor |-> <<>>]

BareDeterministicDeg ==
    [cls |-> "Estimation_DeterministicDeg",
     kin_param_keys |-> <<"alpha", "beta", "gamma">>, models |-> <<>>,
     param_distributor |-> <<>>]

NoGuess == [none |-> TRUE]

\* GoodnessOfFit.__init__ leaves mean, sigm and pred None (lines 553-555).
NoGof == [prepared |-> FALSE, mean |-> <<>>, sigm |-> <<>>, pred |-> <<>>]

\* kinetic_estimation(param_ranges, x0_ranges, simulator)
InitConstructed ==
    \E pr \in ParamRangeSeqs, xr \in X0RangeSeqs, kind \in MethodsKinds :
        LET c == Construct(pr, xr)
        IN  /\ initialized = TRUE
            /\ param_ranges = pr
            /\ x0_ranges = xr
            /\ fixed_parameters = c.fixed_parameters
            /\ ranges = c.ranges
            /\ n_tot_kin_params = c.n_tot_kin_params
            /\ n_kin_params = c.n_kin_params
            /\ n_params = c.n_params
            /\ simulator = NewSimulator(kind)

\* A specialized estimator constructed without ranges, e.g.
\* Estimation_DeterministicDeg(): kinetic_estimation.__init__ is not called
\* and none of its attributes exists.
InitBare ==
    /\ initialized = FALSE
    /\ param_ranges = <<>>
    /\ x0_ranges = <<>>
    /\ fixed_parameters = <<>>
    /\ ranges = <<>>
    /\ n_tot_kin_params = 0
    /\ n_kin_params = 0
    /\ n_params = 0
    /\ simulator = NewSimulator("list")

Init ==
    /\ InitConstructed \/ InitBare
    /\ popt = NonePopt
    /\ cost = NoneCost
    /\ pc = "idle"
    /\ fit = NoFit
    /\ ret = Ok("__init__", <<>>)
    /\ fitted = 0
    /\ ncalls = 0
    /\ sub = IF initialized THEN BaseClass ELSE BareDeterministicDeg
    /\ guess = NoGuess
    /\ gof = NoGof

\* The life of an estimator: fit_lsq calls and the accessors of their result.
Next ==
    \/ GetOptKinParams
    \/ GetOptX0Params
    \/ ExportParameters
    \/ FitBeginSampled
    \/ FitBeginP0Vector
    \/ FitBeginP0Matrix
    \/ FitUninitialized
    \/ LsqStart
    \/ LsqEval
    \/ LsqDegenerateRaise
    \/ LsqReturn
    \/ FitSelect

Spec == Init /\ [][Next]_vars

\* The sampler, the bound manager and the chi-square test, called on a
\* constructed estimator.
NextManager ==
    \/ SampleP0Call
    \/ GetBoundCall
    \/ AssembleKinCall
    \/ AssembleX0Call
    \/ TestChi2

SpecManager == Init /\ [][NextManager]_vars

\* ================================================================ claims
FitReturned == pc = "idle" /\ fit.active /\ fit.done

AllRanges == param_ranges \o x0_ranges

\* The number of not-fixed slots among the first k slots of fixed_parameters.
FreeRank(k) == NanCount(Prefix(fixed_parameters, k))

\* C1: for every range given with low == high, assemble_kin_params(v) and
\* assemble_x0(v) return exactly that low value at the parameter's index, for
\* every free-value vector v of length n_params, in every state (before,
\* during and after a fit_lsq).
C1_FixedValuesReturned ==
    initialized =>
        \A v \in FreeVectors(n_params) :
            /\ \A i \in 1..Len(param_ranges) :
                  param_ranges[i][1] = param_ranges[i][2] =>
                      /\ assemble_kin_ok(v)
                      /\ Len(assemble_kin_params(v)) >= i
                      /\ assemble_kin_params(v)[i] = param_ranges[i][1]
            /\ \A i \in 1..Len(x0_ranges) :
                  x0_ranges[i][1] = x0_ranges[i][2] =>
                      /\ assemble_x0_ok(v)
                      /\ Len(assemble_x0(v)) >= i
                      /\ assemble_x0(v)[i] = x0_ranges[i][1]

C1_Witness ==
    /\ initialized /\ fitted > 0
    /\ n_kin_params > 0
    /\ \E i \in 1..Len(param_ranges) : param_ranges[i] = <<Grid, Grid>>
    /\ \E i \in 1..Len(x0_ranges) : x0_ranges[i] = <<Grid, Grid>>

\* C2: assemble_kin_params(v) has length n_tot_kin_params and assemble_x0(v)
\* has length len(x0_ranges); together they are the fixed-parameter vector
\* with its k-th not-fixed slot (in increasing index order over the whole
\* vector) replaced by v[k]: the kinetic slots consume the prefix of v, the
\* initial-condition slots the suffix, nothing twice and nothing skipped.
C2_AssembleInOrder ==
    (initialized /\ ret.op \in {"assemble_kin_params", "assemble_x0"}) =>
        LET v == ret.args
            kin == ret.op = "assemble_kin_params"
            off == IF kin THEN 0 ELSE n_tot_kin_params
            len == IF kin THEN Len(param_ranges) ELSE Len(x0_ranges)
        IN  /\ ret.raised = "none"
            /\ Len(ret.val) = len
            /\ FreeRank(Len(fixed_parameters)) = Len(v)
            /\ FreeRank(Len(param_ranges)) = n_kin_params
            /\ \A i \in 1..len :
                  ret.val[i] = IF IsNan(fixed_parameters[off + i])
                               THEN v[FreeRank(off + i)]
                               ELSE AllRanges[off + i][1]

C2_Witness ==
    /\ ret.op = "assemble_x0" /\ ret.raised = "none"
    /\ 0 < n_kin_params /\ n_kin_params < n_tot_kin_params
    /\ n_kin_params < n_params
    /\ ret.args[1] # ret.args[n_params]
    /\ ret.val = <<ret.args[n_params]>>

\* C3: in every state of an initialized estimator the number of NaN entries
\* of fixed_parameters is n_params = len(ranges), the number among the first
\* n_tot_kin_params entries is n_kin_params, and ranges holds the free ranges
\* in their original order, the kinetic ones before the initial conditions.
C3_FreeCountsAndOrder ==
    initialized =>
        /\ n_tot_kin_params = Len(param_ranges)
        /\ Len(fixed_parameters) = Len(param_ranges) + Len(x0_ranges)
        /\ NanCount(fixed_parameters) = n_params
        /\ n_params = Len(ranges)
        /\ NanCount(SubSeq(fixed_parameters, 1, n_tot_kin_params)) = n_kin_params
        /\ ranges = SelectSeq(AllRanges, IsFreeRange)
        /\ SubSeq(ranges, 1, n_kin_params) = SelectSeq(param_ranges, IsFreeRange)

C3_Witness ==
    /\ initialized /\ fitted > 0
    /\ 0 < n_kin_params /\ n_kin_params < n_tot_kin_params
    /\ n_kin_params < n_params

\* The least index whose cost is minimal.
FirstMinIndex(costs) ==
    CHOOSE k \in 1..Len(costs) :
        /\ \A j \in 1..Len(costs) : costs[k] <= costs[j]
        /\ \A j \in 1..(k - 1) : costs[j] > costs[k]

\* C4: fit_lsq selects, only after the solves of all starting points have
\* completed, the start whose final cost is minimal, ties broken by the
\* lowest index; it stores that solve's vector in popt and its cost in cost
\* and returns exactly the stored pair.
C4_MinCostFirstIndex ==
    /\ pc # "idle" => (popt = fit.old_popt /\ cost = fit.old_cost)
    /\ pc = "select" => (Len(fit.X) = fit.n_p0 /\ Len(fit.starts) = fit.n_p0)
    /\ FitReturned =>
          LET k == FirstMinIndex(fit.costs)
          IN  /\ Len(fit.X) = fit.n_p0 /\ Len(fit.costs) = fit.n_p0
              /\ popt = Some(fit.X[k])
              /\ cost = Some(fit.costs[k])
              /\ ret = Ok("fit_lsq", <<popt.val, cost.val>>)

C4_Witness ==
    /\ FitReturned
    /\ fit.n_p0 = 2
    /\ fit.costs[1] = fit.costs[2]
    /\ fit.X[1] # fit.X[2]
    /\ popt.val = fit.X[1]

\* C5: fit_lsq runs exactly one bounded solve per starting point: with p0
\* absent the starts are the n_p0 rows drawn by sample_p0(n_p0,
\* sample_method); a one-dimensional p0 is a single start whatever n_p0 the
\* caller passed; a two-dimensional p0 gives one start per row; the box is
\* (get_bound(0), get_bound(1)) unless the caller passes bounds.
C5_OneSolvePerStart ==
    FitReturned =>
        /\ fit.starts = fit.p0
        /\ Len(fit.used_bounds) = Len(fit.starts)
        /\ fit.args.p0kind = "none" =>
              /\ Len(fit.starts) = fit.args.n_p0
              /\ \A r \in 1..Len(fit.p0) : Len(fit.p0[r]) = n_params
              /\ \A i \in 1..n_params :
                    [r \in 1..fit.args.n_p0 |-> fit.p0[r][i]]
                        \in SampleColumns(fit.args.n_p0, fit.args.sample_method, i)
        /\ fit.args.p0kind = "1d" => Len(fit.starts) = 1
        /\ fit.args.p0kind = "2d" => Len(fit.starts) = Len(fit.p0)
        /\ \A k \in 1..Len(fit.used_bounds) :
              fit.used_bounds[k] =
                  IF fit.args.bounds.none
                  THEN <<[i \in 1..n_params |-> SelectSeq(AllRanges, IsFreeRange)[i][1]],
                         [i \in 1..n_params |-> SelectSeq(AllRanges, IsFreeRange)[i][2]]>>
                  ELSE fit.args.bounds.val

C5_Witness ==
    /\ FitReturned
    /\ fit.args.p0kind = "1d" /\ fit.args.n_p0 = 2
    /\ Len(fit.starts) = 1
    /\ n_params = 2
    /\ ~fit.args.bounds.none

Accessors == {"get_opt_kin_params", "get_opt_x0_params", "export_parameters"}

\* C6: on every estimator object, also a specialized estimator constructed
\* without ranges, get_opt_kin_params(), get_opt_x0_params() and
\* export_parameters() return None without raising while no fit_lsq has
\* completed, and the assembled vectors of the stored popt afterwards.
C6_AccessorsNoneBeforeFit ==
    (pc = "idle" /\ ret.op \in Accessors) =>
        /\ ret.raised = "none"
        /\ fitted = 0 => ret.val = NonePopt
        /\ fitted > 0 =>
              ret.val = Some(IF ret.op = "get_opt_x0_params"
                             THEN assemble_x0(popt.val)
                             ELSE assemble_kin_params(popt.val))

\* The part of C6 that holds: on an estimator whose constructor ran.
C6_InitializedAccessors ==
    (initialized /\ pc = "idle" /\ ret.op \in Accessors) =>
        /\ ret.raised = "none"
        /\ fitted = 0 => ret.val = NonePopt
        /\ fitted > 0 =>
              ret.val = Some(IF ret.op = "get_opt_x0_params"
                             THEN assemble_x0(popt.val)
                             ELSE assemble_kin_params(popt.val))

\* C8: for both sampling methods sample_p0(samples, method) returns a matrix
\* with exactly `samples` rows and n_params columns (also for n_params = 0),
\* and every entry of column i lies between get_bound(0)[i] and
\* get_bound(1)[i], the low and high bound of the i-th free parameter in
\* free-vector order.
C8_SampleShapeAndBounds ==
    (initialized /\ ret.op = "sample_p0") =>
        LET free == SelectSeq(AllRanges, IsFreeRange)
        IN  /\ ret.raised = "none"
            /\ Len(ret.val) = ret.args[1]
            /\ Len(get_bound(0)) = n_params /\ Len(get_bound(1)) = n_params
            /\ \A i \in 1..n_params :
                  get_bound(0)[i] = free[i][1] /\ get_bound(1)[i] = free[i][2]
            /\ \A r \in 1..Len(ret.val) :
                  /\ Len(ret.val[r]) = n_params
                  /\ \A i \in 1..n_params :
                        /\ get_bound(0)[i] <= ret.val[r][i]
                        /\ ret.val[r][i] <= get_bound(1)[i]

C8_Witness ==
    /\ ret.op = "sample_p0" /\ ret.raised = "none"
    /\ ret.args = <<2, "lhs">>
    /\ n_params = 2
    /\ ranges[1] # ranges[2]
    /\ ret.val[1] # ret.val[2]
    /\ ret.val[1][1] > ranges[1][1]

C8_WitnessNoFree ==
    /\ initialized /\ ret.op = "sample_p0" /\ ret.raised = "none"
    /\ n_params = 0
    /\ ret.val = <<<<>>, <<>>>>

Unsupported(method) == method # "None" /\ method \notin Range(SimMethods)

\* C9: when the method requested for a residual evaluation is not among the
\* simulator's supported methods, the evaluation is non-fatal: a warning is
\* emitted, the simulator is integrated with its default_method and a
\* residual is returned; no exception is raised on this path.
C9_UnsupportedMethodNonFatal ==
    /\ (pc = "idle" /\ ret.op = "fit_lsq" /\ ret.raised # "none"
            /\ ret.args.where = "f_lsq") => ~Unsupported(ret.args.method)
    /\ (pc = "solving" /\ Unsupported(fit.method)) =>
            (fit.warned /\ simulator.method = SimDefaultMethod)

\* What the code does on C9's path with a simulator whose methods is a list.
C9_ListMethodsFallBack ==
    (pc = "solving" /\ Unsupported(fit.method)) =>
        (fit.warned /\ simulator.method = SimDefaultMethod
            /\ simulator.methods_kind = "list")

\* C10: test_chi2 returns df = (number of distinct values of t) - (number of
\* free parameters: not-fixed kinetic parameters plus not-fixed initial
\* conditions) - 1; fixed ones are not subtracted, repeated time values count
\* once, and df is returned as it is when zero or negative.
C10_DegreesOfFreedom ==
    (initialized /\ ret.op = "test_chi2") =>
        /\ ret.raised = "none"
        /\ ret.val = Cardinality({ret.args[j] : j \in 1..Len(ret.args)})
                        - Len(SelectSeq(AllRanges, IsFreeRange)) - 1

C10_Witness ==
    /\ ret.op = "test_chi2" /\ ret.raised = "none"
    /\ Len(ret.args) = 3 /\ ret.args[1] = ret.args[3]
    /\ n_params = 2 /\ Len(fixed_parameters) = 3
    /\ ret.val = 0 - 1


\* ================================================= specialized estimators
\* The estimator classes with an auto_fit: what their constructors and
\* _initialize hand to kinetic_estimation.__init__.
DegClasses ==
    {"Estimation_DeterministicDeg", "Estimation_DeterministicDegNosp",
     "Estimation_MomentDegNosp"}

MixtureClass == "Mixture_KinDeg_NoSwitching"

AutoClasses == DegClasses \cup {MixtureClass}

\* The sub-models a caller hands to Mixture_KinDeg_NoSwitching: objects with
\* an identity, a type (in nosplicing_models or not) and n_species.
SubModel(id, nosplicing) ==
    [id |-> id, nosplicing |-> nosplicing, n_species |-> IF nosplicing THEN 1 ELSE 2]

ModelPairs == {<<SubModel(1, b1), SubModel(2, b2)>> : b1 \in BOOLEAN, b2 \in BOOLEAN}

\* The attributes of a freshly allocated object of class c, before
\* _initialize: only Estimation_DeterministicDeg.__init__ sets kin_param_keys
\* itself (line 253), the mixture keeps its two models (lines 497-498).
NewSub(c, models) ==
    [cls |-> c,
     kin_param_keys |-> IF c = "Estimation_DeterministicDeg"
                        THEN <<"alpha", "beta", "gamma">> ELSE <<>>,
     models |-> models,
     param_distributor |-> <<>>]

\* The number of species of class c's model.
ClassSpecies(c, models) ==
    IF c = "Estimation_DeterministicDegNosp" THEN 1
    ELSE IF c = MixtureClass THEN models[1].n_species + models[2].n_species
    ELSE 2

\* np.zeros(2): the row of a parameter fixed at 0.
ZeroRow == <<0, 0>>

\* Estimation_Degradation.__init__ (lines 232-234): np.vstack((np.zeros(2),
\* ranges)) puts alpha, fixed at 0, in front of the given rows.
DegradationRanges(rows) == <<ZeroRow>> \o rows

\* Mixture_KinDeg_NoSwitching._initialize (lines 502-515): the parameter rows
\* and the rows of the initial conditions, model1's fixed at 0.
MixtureRangesGammaFirst(alpha, gamma, beta) ==
    IF beta.none THEN <<gamma, ZeroRow, alpha>>
    ELSE <<gamma, ZeroRow, beta.val, alpha>>

MixtureRanges(alpha, gamma, beta) ==
    IF beta.none THEN <<alpha, ZeroRow, gamma>>
    ELSE <<alpha, ZeroRow, beta.val, gamma>>

MixtureX0(models, x0) == [k \in 1..models[1].n_species |-> ZeroRow] \o x0

MixtureDistributor(models) ==
    IF models[1].nosplicing THEN <<<<0, 2>>, <<1, 2>>>>
    ELSE <<<<0, 2, 3>>, <<1, 2, 3>>>>

\* The arguments of _initialize: a range per named parameter (a scalar v is
\* the range [v, v]) and the rows of x0.
InitArgs(alpha, beta, gamma, x0) ==
    [alpha |-> alpha, beta |-> beta, gamma |-> gamma, x0 |-> x0]

\* What class c's _initialize passes to kinetic_estimation.__init__.
InitializeRanges(c, models, a) ==
    IF c = "Estimation_DeterministicDeg"
    THEN [pr |-> DegradationRanges(<<a.beta.val, a.gamma>>), xr |-> a.x0]
    ELSE IF c \in DegClasses
    THEN [pr |-> DegradationRanges(<<a.gamma>>), xr |-> a.x0]
    ELSE [pr |-> MixtureRanges(a.alpha, a.gamma, a.beta),
          xr |-> MixtureX0(models, a.x0)]

\* The identity of the class object `Deterministic`.
DeterministicClassId == 5

\* The simulator _initialize passes: Estimation_DeterministicDeg passes the
\* class Deterministic itself (line 261), the other classes a new instance;
\* the mixture's simulator holds the estimator's two model objects.
InitializeSimulator(c, models, newid) ==
    IF c = "Estimation_DeterministicDeg"
    THEN [NewSimulator("list") EXCEPT !.id = DeterministicClassId, !.is_class = TRUE]
    ELSE IF c = MixtureClass
    THEN [NewSimulator("list") EXCEPT !.id = newid,
                                      !.parts = {models[1].id, models[2].id}]
    ELSE [NewSimulator("list") EXCEPT !.id = newid]

\* kin_param_keys after _initialize: Estimation_Degradation.__init__ assigns
\* it (line 233), also over the value Estimation_DeterministicDeg.__init__ set.
InitializeSub(s) ==
    [s EXCEPT !.kin_param_keys = IF s.cls \in DegClasses
                                 THEN <<"alpha", "gamma">> ELSE @,
              !.param_distributor = IF s.cls = MixtureClass
                                    THEN MixtureDistributor(s.models) ELSE @]


\* ------------------------------------------------------------- heuristics
\* Units.  A data value or an initial condition is a multiple of 1e-4, a
\* rate a multiple of 1e-3, a time handed to guestimate_gamma a multiple of
\* 1e-3: the clip bounds 1e-4, 1e-3 and 1e3 are then the integers below, and
\* the 1e-6 of guestimate_gamma is 0.01 data units.
XVals == {1, 50, 51, 100, 101, 102}

\* round(1000 * ln(a / (b + 0.01))) for data values a, b.
LnRatioTab ==
        <<1, 1>> :> -10 @@ <<1, 50>> :> -3912 @@ <<1, 51>> :> -3932 @@ <<1, 100>> :> -4605 @@ <<1, 101>> :> -4615 @@ <<1, 102>> :> -4625 @@
        <<50, 1>> :> 3902 @@ <<50, 50>> :> 0 @@ <<50, 51>> :> -20 @@ <<50, 100>> :> -693 @@ <<50, 101>> :> -703 @@ <<50, 102>> :> -713 @@
        <<51, 1>> :> 3922 @@ <<51, 50>> :> 20 @@ <<51, 51>> :> 0 @@ <<51, 100>> :> -673 @@ <<51, 101>> :> -683 @@ <<51, 102>> :> -693 @@
        <<100, 1>> :> 4595 @@ <<100, 50>> :> 693 @@ <<100, 51>> :> 673 @@ <<100, 100>> :> 0 @@ <<100, 101>> :> -10 @@ <<100, 102>> :> -20 @@
        <<101, 1>> :> 4605 @@ <<101, 50>> :> 703 @@ <<101, 51>> :> 683 @@ <<101, 100>> :> 10 @@ <<101, 101>> :> 0 @@ <<101, 102>> :> -10 @@
        <<102, 1>> :> 4615 @@ <<102, 50>> :> 713 @@ <<102, 51>> :> 693 @@ <<102, 100>> :> 20 @@ <<102, 101>> :> 10 @@ <<102, 102>> :> 0

GammaMin == 1

GammaMax == 1000000

X0Min == 1

Headroom == 100

ClipNoLow(v, lo, hi) == IF v > hi THEN hi ELSE v

\* np.clip(v, lo, hi)
Clip(v, lo, hi) == IF v < lo THEN lo ELSE IF v > hi THEN hi ELSE v

\* ln(x[0] / (x[-1] + 1e-6)) / t[-1], in thousandths, before clipping.
GammaRaw(x_data, time) ==
    (LnRatioTab[<<x_data[1], x_data[Len(x_data)]>>] * 1000) \div time[Len(time)]

\* guestimate_gamma (lines 19-22)
guestimate_gamma(x_data, time) == Clip(GammaRaw(x_data, time), GammaMin, GammaMax)

RECURSIVE MaxOf(_)
MaxOf(x) ==
    IF Len(x) = 1 THEN x[1]
    ELSE IF Head(x) >= MaxOf(Tail(x)) THEN Head(x) ELSE MaxOf(Tail(x))

\* np.argmax(x): the first index of the maximum (1-based).
argmax(x) == CHOOSE i \in 1..Len(x) :
                /\ x[i] = MaxOf(x)
                /\ \A j \in 1..(i - 1) : x[j] < x[i]

\* guestimate_alpha (lines 13-17), for a maximum at a positive time.
guestimate_alpha(x_data, time) == x_data[argmax(x_data)] \div time[argmax(x_data)]

\* guestimate_init_cond (lines 24-27): the row-wise maximum, at least 1e-4.
guestimate_init_cond(x_data) ==
    [sp \in 1..Len(x_data) |-> IF MaxOf(x_data[sp]) < X0Min THEN X0Min
                                ELSE MaxOf(x_data[sp])]

\* [0, 1e2 * v0]
BoundOf(v0) == <<0, Headroom * v0>>

RowSum(a, b) == [j \in 1..Len(a) |-> a[j] + b[j]]

\* time in thousandths, as guestimate_gamma reads it.
Milli(time) == [j \in 1..Len(time) |-> 1000 * time[j]]


\* ---------------------------------------------------------------- auto_fit
\* The data of the modelled auto_fit calls: one row per species over the
\* times FitT, decaying or growing.  The rows of a mixture's first model
\* grow, so that guestimate_alpha finds the maximum at a positive time.
RowDec == <<51, 50>>

RowInc == <<50, 51>>

AutoData(c, models) ==
    LET m == ClassSpecies(c, models)
        n1 == IF c = MixtureClass THEN models[1].n_species ELSE 0
    IN  {X \in [1..m -> {RowDec, RowInc}] : \A sp \in 1..n1 : X[sp] = RowInc}

\* Data whose first model's species were never observed, over times that
\* start after 0: guestimate_alpha divides the zero maximum by a positive
\* time.
RowZero == <<0, 0>>

LateT == <<1, 2>>

\* The (time, x_data) arguments of the modelled auto_fit calls.
AutoInputs(c, models) ==
    {[time |-> FitT, X |-> X] : X \in AutoData(c, models)}
    \cup (IF c = MixtureClass
          THEN {[time |-> LateT, X |-> X] :
                  X \in {Y \in [1..ClassSpecies(c, models) -> {RowZero, RowDec, RowInc}] :
                            \A sp \in 1..Len(Y) :
                                (Y[sp] = RowZero) <=> (sp <= models[1].n_species)}}
          ELSE {})

\* x_data as fit_lsq and the residual read it: species after species.
Flatten(X) ==
    [k \in 1..(Len(X) * Len(FitT)) |->
        X[((k - 1) \div Len(FitT)) + 1][((k - 1) % Len(FitT)) + 1]]

NoEst == 0

EstGuess(al0, be0, ga0, x0, p0, args, X) ==
    [none |-> FALSE, al0 |-> al0, be0 |-> be0, ga0 |-> ga0, x0 |-> x0,
     p0 |-> p0, args |-> args, x_data |-> Flatten(X)]

X0Bounds(x0) == [sp \in 1..Len(x0) |-> BoundOf(x0[sp])]

\* Estimation_DeterministicDeg.auto_fit, lines 264-270
GuessDeterministicDeg(X, time) ==
    LET be0 == guestimate_gamma(X[1], Milli(time))
        ga0 == guestimate_gamma(RowSum(X[1], X[2]), Milli(time))
        x0 == guestimate_init_cond(X)
    IN  EstGuess(NoEst, be0, ga0, x0, <<be0, ga0>> \o x0,
                 InitArgs(ZeroRow, Some(BoundOf(be0)), BoundOf(ga0), X0Bounds(x0)), X)

\* Estimation_DeterministicDegNosp.auto_fit (lines 291-295), x_data one row;
\* Estimation_MomentDegNosp.auto_fit (lines 347-351)
GuessDegNosp(X, time) ==
    LET ga0 == guestimate_gamma(X[1], Milli(time))
        x0 == guestimate_init_cond(X)
    IN  EstGuess(NoEst, NoEst, ga0, x0, <<ga0>> \o x0,
                 InitArgs(ZeroRow, NonePopt, BoundOf(ga0), X0Bounds(x0)), X)

\* Mixture_KinDeg_NoSwitching.auto_fit, lines 515-536
GuessMixture(models, X, time) ==
    LET n1 == models[1].n_species
        x0 == guestimate_init_cond(SubSeq(X, n1 + 1, Len(X)))
        al0 == IF models[1].nosplicing
               THEN guestimate_alpha(X[1], time)
               ELSE guestimate_alpha(RowSum(X[1], X[2]), time)
    IN  IF models[2].nosplicing
        THEN LET ga0 == guestimate_gamma(X[n1 + 1], Milli(time))
             IN  EstGuess(al0, NoEst, ga0, x0, <<al0, ga0>> \o x0,
                          InitArgs(BoundOf(al0), NonePopt, BoundOf(ga0),
                                   X0Bounds(x0)), X)
        ELSE LET be0 == guestimate_gamma(X[n1 + 1], Milli(time))
                 ga0 == guestimate_gamma(RowSum(X[n1 + 1], X[n1 + 2]), Milli(time))
             IN  EstGuess(al0, be0, ga0, x0, <<al0, be0, ga0>> \o x0,
                          InitArgs(BoundOf(al0), Some(BoundOf(be0)), BoundOf(ga0),
                                   X0Bounds(x0)), X)

AutoGuess(c, models, X, time) ==
    IF c = "Estimation_DeterministicDeg" THEN GuessDeterministicDeg(X, time)
    ELSE IF c = MixtureClass THEN GuessMixture(models, X, time)
    ELSE GuessDegNosp(X, time)

\* _initialize(...) on the estimator: kinetic_estimation.__init__ runs again
\* (lines 44-64): a new fixed/free partition, the simulator _initialize
\* passes, popt and cost None.
Reinitialize(a) ==
    LET r == InitializeRanges(sub.cls, sub.models, a)
        c == Construct(r.pr, r.xr)
    IN  /\ initialized' = TRUE
        /\ param_ranges' = r.pr
        /\ x0_ranges' = r.xr
        /\ fixed_parameters' = c.fixed_parameters
        /\ ranges' = c.ranges
        /\ n_tot_kin_params' = c.n_tot_kin_params
        /\ n_kin_params' = c.n_kin_params
        /\ n_params' = c.n_params
        /\ simulator' = InitializeSimulator(sub.cls, sub.models, simulator.id + 1)
        /\ popt' = NonePopt
        /\ cost' = NoneCost
        /\ sub' = InitializeSub(sub)

\* auto_fit up to its fit_lsq call: the estimates, their bounds, _initialize.
AutoFitInitialize ==
    /\ pc = "idle" /\ sub.cls \in AutoClasses /\ fitted < MaxFits /\ guess.none
    /\ \E inp \in AutoInputs(sub.cls, sub.models) :
          LET g == AutoGuess(sub.cls, sub.models, inp.X, inp.time)
          IN  /\ guess' = g
              /\ Reinitialize(g.args)
    /\ pc' = "auto_fit"
    /\ fit' = NoFit
    /\ ret' = Ok("auto_fit", <<>>)
    /\ UNCHANGED <<fitted, ncalls, gof>>

\* auto_fit's fit_lsq(time, x_data, p0=np.hstack(...), normalize=False)
AutoFitFit ==
    /\ pc = "auto_fit"
    /\ FitEnter(guess.x_data, TRUE, "1d", <<guess.p0>>, 1, NoBounds, "lhs",
                "None", FALSE)

\* The first residual evaluation when the simulator is a class: its methods
\* are called without an instance, and reading default_method or calling
\* set_params fails.
LsqStartOnClass ==
    /\ pc = "solve"
    /\ simulator.is_class
    /\ \E e \in {"AttributeError", "TypeError"} : FitRaise(e, "f_lsq", fit.method)
    /\ UNCHANGED simulator


\* ------------------------------------------------------------ export_model
\* kinetic_estimation.export_model (lines 181-185).  simulator.__class__ of
\* a simulator that is itself a class is `type`, and type() raises TypeError.
\* Mixture_KinDeg_NoSwitching.export_model (lines 541-545) builds a new
\* MixtureModels around the estimator's own model1 and model2.
export_model(reinstantiate) ==
    IF ~initialized
    THEN RaisedCall("export_model", reinstantiate, "AttributeError")
    ELSE IF ~reinstantiate THEN OkCall("export_model", reinstantiate, simulator)
    ELSE IF sub.cls = MixtureClass
    THEN OkCall("export_model", reinstantiate,
                [NewSimulator(simulator.methods_kind) EXCEPT
                    !.id = simulator.id + 1,
                    !.parts = {sub.models[1].id, sub.models[2].id}])
    ELSE IF simulator.is_class
    THEN RaisedCall("export_model", reinstantiate, "TypeError")
    ELSE OkCall("export_model", reinstantiate,
                [NewSimulator(simulator.methods_kind) EXCEPT !.id = simulator.id + 1])

ExportModel ==
    /\ Idle
    /\ \E reinstantiate \in BOOLEAN : ManagerCall(export_model(reinstantiate))

\* ------------------------------------------- get_param and calc_half_life
ParamKeys == {"alpha", "beta", "gamma"}

\* np.where(self.kin_param_keys == key)[0][0], 0-based; -1 when [0] is empty.
KeyIndex(keys, key) ==
    IF \E i \in 1..Len(keys) : keys[i] = key
    THEN (CHOOSE i \in 1..Len(keys) :
            keys[i] = key /\ \A j \in 1..(i - 1) : keys[j] # key) - 1
    ELSE -1

\* Estimation_Degradation.get_param (lines 242-243): self.popt, then the
\* index, then the subscript.
get_param_raises(key) ==
    IF ~initialized THEN "AttributeError"
    ELSE IF KeyIndex(sub.kin_param_keys, key) < 0 THEN "IndexError"
    ELSE IF popt.none THEN "TypeError"
    ELSE IF KeyIndex(sub.kin_param_keys, key) >= Len(popt.val) THEN "IndexError"
    ELSE "none"

get_param(key) == popt.val[KeyIndex(sub.kin_param_keys, key) + 1]

GetParam ==
    /\ Idle
    /\ sub.cls \in DegClasses
    /\ \E key \in ParamKeys :
          IF get_param_raises(key) # "none"
          THEN ManagerCall(RaisedCall("get_param", key, get_param_raises(key)))
          ELSE ManagerCall(OkCall("get_param", key, get_param(key)))

\* calc_half_life (lines 245-246): np.log(2) / get_param(key), kept as the
\* divisor of ln 2.
calc_half_life(key) == [ln2_over |-> get_param(key)]

CalcHalfLife ==
    /\ Idle
    /\ sub.cls \in DegClasses
    /\ \E key \in ParamKeys :
          IF get_param_raises(key) # "none"
          THEN ManagerCall(RaisedCall("calc_half_life", key, get_param_raises(key)))
          ELSE ManagerCall(OkCall("calc_half_life", key, calc_half_life(key)))

\* ------------------------------------------ the specialized estimators' life
\* The ranges a caller constructs a specialized estimator with: a scalar
\* (a fixed value) or a free range, for every named parameter; the rows of
\* x0 alike.
ArgRanges == {<<Grid, Grid>>, <<0, Grid>>}

CtorArgs(c, models) ==
    {InitArgs(al, be, ga, [sp \in 1..(IF c = MixtureClass
                                       THEN models[2].n_species
                                       ELSE ClassSpecies(c, models)) |-> xrow]) :
        al \in (IF c = MixtureClass THEN ArgRanges ELSE {ZeroRow}),
        be \in (IF c = "Estimation_DeterministicDeg"
                THEN {Some(r) : r \in ArgRanges}
                ELSE IF c = MixtureClass
                THEN {Some(r) : r \in ArgRanges} \cup {NonePopt}
                ELSE {NonePopt}),
        ga \in ArgRanges,
        xrow \in ArgRanges}

ClassModels(c) == IF c = MixtureClass THEN ModelPairs ELSE {<<>>}

\* A specialized estimator constructed with its ranges.
InitSpecializedWith ==
    \E c \in AutoClasses : \E models \in ClassModels(c) :
        \E a \in CtorArgs(c, models) :
            LET r == InitializeRanges(c, models, a)
                k == Construct(r.pr, r.xr)
            IN  /\ initialized = TRUE
                /\ param_ranges = r.pr
                /\ x0_ranges = r.xr
                /\ fixed_parameters = k.fixed_parameters
                /\ ranges = k.ranges
                /\ n_tot_kin_params = k.n_tot_kin_params
                /\ n_kin_params = k.n_kin_params
                /\ n_params = k.n_params
                /\ simulator = InitializeSimulator(c, models, 10)
                /\ sub = InitializeSub(NewSub(c, models))

\* A specialized estimator constructed without ranges: _initialize has not run.
InitSpecializedBare ==
    \E c \in AutoClasses : \E models \in ClassModels(c) :
        /\ initialized = FALSE
        /\ param_ranges = <<>>
        /\ x0_ranges = <<>>
        /\ fixed_parameters = <<>>
        /\ ranges = <<>>
        /\ n_tot_kin_params = 0
        /\ n_kin_params = 0
        /\ n_params = 0
        /\ simulator = NewSimulator("list")
        /\ sub = NewSub(c, models)

InitAuto ==
    /\ InitSpecializedWith \/ InitSpecializedBare
    /\ popt = NonePopt
    /\ cost = NoneCost
    /\ pc = "idle"
    /\ fit = NoFit
    /\ ret = Ok("__init__", <<>>)
    /\ fitted = 0
    /\ ncalls = 0
    /\ guess = NoGuess
    /\ gof = NoGof

NextAuto ==
    \/ AutoFitInitialize
    \/ AutoFitFit
    \/ LsqStart
    \/ LsqStartOnClass
    \/ LsqEval
    \/ LsqReturn
    \/ FitSelect
    \/ ExportModel
    \/ GetParam
    \/ CalcHalfLife

SpecAuto == InitAuto /\ [][NextAuto]_vars


\* guestimate_gamma called on its own: data that starts at a and ends at b,
\* over times that end at tlast thousandths.
TLasts == {1, 1000, 2000}

GuestimateGammaCall ==
    /\ Idle
    /\ \E a \in XVals, b \in XVals, tlast \in TLasts :
          ManagerCall(OkCall("guestimate_gamma",
                             [x_data |-> <<a, b>>, time |-> <<0, tlast>>],
                             guestimate_gamma(<<a, b>>, <<0, tlast>>)))

NextGuess == GuestimateGammaCall

SpecGuess == InitAuto /\ [][NextGuess]_vars

\* ======================================================= claims C11 - C13
\* C11: for every estimator class, export_model(reinstantiate=True) returns a
\* fresh, default-constructed simulator that shares no state with the
\* estimator's live simulator, and export_model(reinstantiate=False) returns
\* the very simulator the estimator holds.
C11_ExportModelFreshOrLive ==
    (initialized /\ ret.op = "export_model") =>
        /\ ret.raised = "none"
        /\ ret.args = TRUE =>
              /\ ret.val.id # simulator.id
              /\ ret.val.parts \cap simulator.parts = {}
              /\ ret.val.params = <<>> /\ ret.val.x0 = <<>> /\ ret.val.x = <<>>
        /\ ret.args = FALSE => ret.val = simulator

\* What holds of export_model: for a simulator that is an instance and no
\* mixture, the claim's two cases.
C11_InstanceExport ==
    (initialized /\ ret.op = "export_model" /\ ~simulator.is_class
        /\ sub.cls # MixtureClass) =>
        /\ ret.raised = "none"
        /\ ret.args = TRUE =>
              (ret.val.id # simulator.id /\ ret.val.params = <<>> /\ ret.val.x = <<>>)
        /\ ret.args = FALSE => ret.val = simulator

\* The index (1-based) of a named parameter in the class's parameter rows.
ParamRow(c, models, key) ==
    IF c = "Estimation_DeterministicDeg"
    THEN (IF key = "alpha" THEN 1 ELSE IF key = "beta" THEN 2 ELSE 3)
    ELSE IF c \in DegClasses
    THEN (IF key = "alpha" THEN 1 ELSE 2)
    ELSE IF models[2].nosplicing
    THEN (IF key = "alpha" THEN 1 ELSE 3)
    ELSE (IF key = "alpha" THEN 1 ELSE IF key = "beta" THEN 3 ELSE 4)

\* C12: in every auto_fit, each heuristic estimate v0 that is produced (alpha,
\* beta, gamma, every initial condition) gets the range [0, 100 v0] for
\* exactly the parameter it estimates, and the estimator is re-initialized
\* with those ranges before fit_lsq is called.
C12_AutoFitBounds ==
    /\ (fit.active \/ pc = "auto_fit") => ~guess.none
    /\ ~guess.none =>
          LET c == sub.cls
              ms == sub.models
              nx == Len(guess.x0)
          IN  /\ initialized
              /\ guess.al0 # NoEst =>
                    param_ranges[ParamRow(c, ms, "alpha")] = <<0, 100 * guess.al0>>
              /\ guess.be0 # NoEst =>
                    param_ranges[ParamRow(c, ms, "beta")] = <<0, 100 * guess.be0>>
              /\ param_ranges[ParamRow(c, ms, "gamma")] = <<0, 100 * guess.ga0>>
              /\ \A sp \in 1..nx :
                    x0_ranges[Len(x0_ranges) - nx + sp] = <<0, 100 * guess.x0[sp]>>
              /\ fit.active => fit.p0 = <<guess.p0>>

C12_Witness ==
    /\ pc = "solve"
    /\ sub.cls = MixtureClass /\ ~sub.models[2].nosplicing
    /\ guess.be0 # guess.ga0 /\ guess.al0 # guess.x0[1]
    /\ param_ranges[3] = <<0, 100 * guess.be0>>
    /\ param_ranges[4] = <<0, 100 * guess.ga0>>

\* C13: guestimate_gamma(x, t) lies in [1e-3, 1e3] for finite positive x and
\* t: the raw estimate ln(x[0] / (x[-1] + 1e-6)) / t[-1] is clipped to 1e-3
\* from below (also when the data grows and the raw estimate is negative) and
\* to 1e3 from above.
C13_GammaClipped ==
    ret.op = "guestimate_gamma" =>
        LET raw == (LnRatioTab[<<ret.args.x_data[1], ret.args.x_data[2]>>] * 1000)
                       \div ret.args.time[2]
        IN  /\ ret.raised = "none"
            /\ 1 <= ret.val /\ ret.val <= 1000000
            /\ raw < 1 => ret.val = 1
            /\ raw > 1000000 => ret.val = 1000000
            /\ (1 <= raw /\ raw <= 1000000) => ret.val = raw

C13_Witness ==
    /\ ret.op = "guestimate_gamma"
    /\ ret.args.x_data[1] < ret.args.x_data[2]
    /\ ret.args.time[2] = 1000
    /\ ret.val = 1

C13_WitnessUpper ==
    /\ ret.op = "guestimate_gamma"
    /\ ret.args.x_data = <<102, 1>> /\ ret.args.time[2] = 1
    /\ ret.val = 1000000


\* ======================================================= claims C16, C17
\* C16: for the degradation estimators, after a fit, get_param(key) returns
\* the fitted value of the kinetic parameter named key ('beta', 'gamma'),
\* and calc_half_life(key) returns ln(2) divided by that fitted parameter,
\* never ln(2) divided by another parameter or by an initial condition.
C16_GetParamNamed ==
    (/\ ret.op \in {"get_param", "calc_half_life"}
     /\ sub.cls \in DegClasses /\ ~popt.none
     /\ ret.args \in {"beta", "gamma"}
     /\ (ret.args = "beta" => sub.cls = "Estimation_DeterministicDeg")) =>
        /\ ret.raised = "none"
        /\ LET v == assemble_kin_params(popt.val)[ParamRow(sub.cls, sub.models, ret.args)]
           IN  ret.val = IF ret.op = "get_param" THEN v ELSE [ln2_over |-> v]

\* C17: the fixed/free partition of an estimator is decided once at
\* construction: no later operation changes fixed_parameters, ranges,
\* n_tot_kin_params, n_kin_params or n_params, replaces the simulator the
\* estimator was constructed with, or resets a stored popt/cost to None.
C17_PartitionFixedAtConstruction ==
    [][initialized =>
          /\ fixed_parameters' = fixed_parameters
          /\ ranges' = ranges
          /\ n_tot_kin_params' = n_tot_kin_params
          /\ n_kin_params' = n_kin_params
          /\ n_params' = n_params
          /\ simulator'.id = simulator.id
          /\ (~popt.none => ~popt'.none)
          /\ (~cost.none => ~cost'.none)]_vars

\* What holds of C17: the operations other than auto_fit leave the partition
\* and the simulator's identity alone.
C17_BaseOperationsKeepPartition ==
    [][(initialized /\ pc' # "auto_fit") =>
          /\ fixed_parameters' = fixed_parameters
          /\ ranges' = ranges
          /\ n_tot_kin_params' = n_tot_kin_params
          /\ n_kin_params' = n_kin_params
          /\ n_params' = n_params
          /\ simulator'.id = simulator.id
          /\ (~popt.none => ~popt'.none)]_vars


\* ------------------------------------------------- fit_lsq called twice
\* A constructed estimator whose simulator may be numerically unstable.
InitRefit ==
    /\ \E pr \in ParamRangeSeqs, xr \in X0RangeSeqs, u \in BOOLEAN :
          LET c == Construct(pr, xr)
          IN  /\ initialized = TRUE
              /\ param_ranges = pr
              /\ x0_ranges = xr
              /\ fixed_parameters = c.fixed_parameters
              /\ ranges = c.ranges
              /\ n_tot_kin_params = c.n_tot_kin_params
              /\ n_kin_params = c.n_kin_params
              /\ n_params = c.n_params
              /\ simulator = [NewSimulator("list") EXCEPT !.unstable = u]
    /\ popt = NonePopt
    /\ cost = NoneCost
    /\ pc = "idle"
    /\ fit = NoFit
    /\ ret = Ok("__init__", <<>>)
    /\ fitted = 0
    /\ ncalls = 0
    /\ sub = BaseClass
    /\ guess = NoGuess
    /\ gof = NoGof

\* The first fit_lsq call, with p0 supplied, one start per row.
RefitFirst ==
    /\ pc = "idle" /\ fitted = 0 /\ ~fit.active
    /\ \E x_data \in FitData, rows \in SeqsUpTo(ExplicitStarts, 1, MaxStarts),
          o \in FitOptions :
          FitEnter(x_data, TRUE, "2d", rows, 1, o.bounds, "lhs", o.method,
                   o.normalize)

\* test_chi2 between the two calls (lines 210-214): it integrates the
\* simulator over its own t with the simulator's own x0.
RefitTestChi2 ==
    /\ FitReturned /\ fitted = 1 /\ ncalls < MaxCalls
    /\ \E t \in TimeSeqs, method \in Range(SimMethods) :
          /\ simulator' = integrate(simulator, t, NonePopt, method)
          /\ ret' = OkCall("test_chi2", t, Df(t))
    /\ ncalls' = ncalls + 1
    /\ UNCHANGED <<estVars, objVars, popt, cost, pc, fit, fitted>>

\* The second call: the arguments of the first, on the estimator as the
\* first call and test_chi2 left it.
RefitSecond ==
    /\ FitReturned /\ fitted = 1
    /\ FitEnter(fit.args.x_data, TRUE, "2d", fit.p0, fit.args.n_p0,
                fit.args.bounds, fit.args.sample_method, fit.method,
                fit.normalize)

\* least_squares is a deterministic function of the residual function, the
\* start and the box: it returns after the evaluations it makes.
LsqReturnConverged == fit.active /\ fit.nevals = MaxEvals /\ LsqReturn

NextRefit ==
    \/ RefitFirst
    \/ LsqStart
    \/ LsqEval
    \/ LsqDegenerateRaise
    \/ LsqReturnConverged
    \/ FitSelect
    \/ RefitTestChi2
    \/ RefitSecond

SpecRefit == InitRefit /\ [][NextRefit]_vars

\* ================================================================ claim C14
\* C14: two calls of fit_lsq on the same estimator with identical t, x_data,
\* method, normalize and an explicitly supplied p0 produce the same
\* (popt, cost) pair: the second result does not depend on the simulator
\* state, popt or cost the first call or an operation in between left.
C14_RefitSameResult ==
    (FitReturned /\ fitted = 2) =>
        (/\ ~fit.old_popt.none /\ ~fit.old_cost.none
         /\ ret.val = <<fit.old_popt.val, fit.old_cost.val>>
         /\ popt = fit.old_popt
         /\ cost = fit.old_cost)

C14_Witness ==
    /\ FitReturned /\ fitted = 2 /\ ncalls = 1
    /\ Len(fit.p0) = 2 /\ fit.p0[1] # fit.p0[2]
    /\ ret.val = <<fit.old_popt.val, fit.old_cost.val>>
    /\ cost.val > 0


\* =========================================================== GoodnessOfFit
\* Times and replicate data of a goodness-of-fit evaluation: one species,
\* at most two replicates per time point.
GofTimes == {<<0, 1>>, <<0, 0, 1>>, <<0, 1, 1>>, <<0, 0, 1, 1>>}

GofVals == {2, 4}

\* The sorted unique times of t (np.unique).
RECURSIVE SortedSeq(_)
SortedSeq(S) ==
    IF S = {} THEN <<>>
    ELSE LET m == CHOOSE x \in S : \A y \in S : x <= y
         IN  <<m>> \o SortedSeq(S \ {m})

\* The entries of x taken at time ti, in order.
RECURSIVE AtTime(_, _, _)
AtTime(x, t, ti) ==
    IF x = <<>> THEN <<>>
    ELSE (IF Head(t) = ti THEN <<Head(x)>> ELSE <<>>) \o AtTime(Tail(x), Tail(t), ti)

MeanOf(g) == SumSeq(g) \div Len(g)

\* np.std of one or two replicates: 0 for one, |a - b| / 2 for two.
StdOf(g) ==
    IF Len(g) = 1 THEN 0
    ELSE (IF g[1] >= g[2] THEN g[1] - g[2] ELSE g[2] - g[1]) \div 2

\* strat_mom(x, t, fn): fn over the entries of x at each unique time.
strat_mom(x, t, fn) ==
    LET ts == SortedSeq(Range(t))
    IN  [i \in 1..Len(ts) |->
            IF fn = "mean" THEN MeanOf(AtTime(x, t, ts[i]))
            ELSE StdOf(AtTime(x, t, ts[i]))]

\* GoodnessOfFit.normalize (lines 580-584): division by scale, kept in
\* hundredths.
GofNormalize(x, scale) == [j \in 1..Len(x) |-> (100 * x[j]) \div scale]

\* prepare_data (lines 563-578) on simulator sim: the simulator afterwards
\* and the stored mean, sigm and pred.
prepare_data(sim, t, x_data, method, normalize, reintegrate) ==
    LET sim1 == IF reintegrate THEN integrate(sim, t, NonePopt, method) ELSE sim
        x_model == NanToZero(extract_data_from_simulator(sim1))
        scale == MaxOf(strat_mom(x_data, t, "mean"))
        xd == IF normalize THEN GofNormalize(x_data, scale) ELSE x_data
        xm == IF normalize THEN GofNormalize(x_model, scale) ELSE x_model
    IN  [sim |-> sim1,
         gof |-> [prepared |-> TRUE,
                  mean |-> strat_mom(xd, t, "mean"),
                  sigm |-> strat_mom(xd, t, "std"),
                  pred |-> strat_mom(xm, t, "mean")]]

\* The variant of SigOrOne that keeps every sigma.
SigKept(sigm) == sigm

\* Lines 587-590: sig = np.array(self.sigm, copy=True); sig[sig==0] = 1.
SigOrOne(sigm) == [i \in 1..Len(sigm) |-> IF sigm[i] = 0 THEN 1 ELSE sigm[i]]

\* Line 588: np.any(sig==0), the condition of the warning.
AnyZero(sigm) == \E i \in 1..Len(sigm) : sigm[i] = 0

\* calc_gaussian_likelihood / calc_gaussian_loglikelihood up to err: the
\* sigmas used, whether the warning was issued, and the numerators and
\* denominators of err = (pred - mean) / sig.  The likelihood itself is a
\* floating point number of these; calc_gaussian_loglikelihood has no return
\* statement and yields None.
calc_gaussian(op, g) ==
    IF ~g.prepared
    THEN RaisedCall(op, [gof |-> g, warned |-> FALSE, sig |-> <<>>], "TypeError")
    ELSE LET sig == SigOrOne(g.sigm)
         IN  OkCall(op, [gof |-> g, warned |-> AnyZero(g.sigm), sig |-> sig],
                    IF op = "calc_gaussian_loglikelihood" THEN <<>>
                    ELSE [i \in 1..Len(sig) |-> <<g.pred[i] - g.mean[i], sig[i]>>])

GofParams == {<<0>>, <<1>>}

\* GoodnessOfFit(simulator, params, x0), lines 548-556.
InitGof ==
    /\ initialized = FALSE
    /\ param_ranges = <<>>
    /\ x0_ranges = <<>>
    /\ fixed_parameters = <<>>
    /\ ranges = <<>>
    /\ n_tot_kin_params = 0
    /\ n_kin_params = 0
    /\ n_params = 0
    /\ \E params \in GofParams, x0 \in {<<2>>, <<3>>}, u \in BOOLEAN :
          simulator = [NewSimulator("list") EXCEPT
                          !.params = params, !.x0 = x0, !.unstable = u]
    /\ popt = NonePopt
    /\ cost = NoneCost
    /\ pc = "idle"
    /\ fit = NoFit
    /\ ret = Ok("__init__", <<>>)
    /\ fitted = 0
    /\ ncalls = 0
    /\ sub = BaseClass
    /\ guess = NoGuess
    /\ gof = NoGof

PrepareData ==
    /\ pc = "idle" /\ ncalls < MaxCalls
    /\ \E t \in GofTimes, normalize \in BOOLEAN, reintegrate \in BOOLEAN :
          \E x_data \in [1..Len(t) -> GofVals] :
              IF ~reintegrate /\ Len(simulator.x) # Len(t)
              THEN /\ ret' = RaisedCall("prepare_data", t, "IndexError")
                   /\ UNCHANGED <<simulator, gof>>
              ELSE LET r == prepare_data(simulator, t, x_data, "matrix",
                                         normalize, reintegrate)
                   IN  /\ simulator' = r.sim
                       /\ gof' = r.gof
                       /\ ret' = OkCall("prepare_data", t, <<>>)
    /\ ncalls' = ncalls + 1
    /\ UNCHANGED <<estVars, sub, guess, popt, cost, pc, fit, fitted>>

CalcGaussianLikelihood ==
    /\ pc = "idle"
    /\ \E op \in {"calc_gaussian_likelihood", "calc_gaussian_loglikelihood"} :
          ret' = calc_gaussian(op, gof)
    /\ UNCHANGED <<estVars, objVars, popt, cost, pc, fit, fitted, ncalls, simulator>>

NextGof == PrepareData \/ CalcGaussianLikelihood

SpecGof == InitGof /\ [][NextGof]_vars

\* ================================================================ claim C15
\* C15: in calc_gaussian_likelihood and calc_gaussian_loglikelihood, whenever
\* at least one stratified standard deviation is exactly zero, every zero
\* sigma is replaced by 1 for that computation, a warning is emitted and no
\* exception is raised; when no sigma is zero, no warning is emitted and no
\* sigma is altered; the stored mean, sigm and pred are left unchanged.
C15_ZeroSigma ==
    (ret.op \in {"calc_gaussian_likelihood", "calc_gaussian_loglikelihood"}
        /\ ret.args.gof.prepared) =>
        (LET sigm == ret.args.gof.sigm
             zero == \E i \in 1..Len(sigm) : sigm[i] = 0
         IN  /\ ret.raised = "none"
             /\ Len(ret.args.sig) = Len(sigm)
             /\ \A i \in 1..Len(sigm) :
                   ret.args.sig[i] = IF sigm[i] = 0 THEN 1 ELSE sigm[i]
             /\ ret.args.warned = zero
             /\ gof = ret.args.gof)

C15_Witness ==
    /\ ret.op = "calc_gaussian_likelihood"
    /\ gof.prepared /\ gof.sigm = <<1, 0>>
    /\ ret.args.sig = <<1, 1>> /\ ret.args.warned
    /\ ret.raised = "none"

C15_WitnessNoZero ==
    /\ ret.op = "calc_gaussian_loglikelihood"
    /\ gof.prepared /\ \A i \in 1..Len(gof.sigm) : gof.sigm[i] > 0
    /\ ~ret.args.warned /\ ret.args.sig = gof.sigm


\* ================================================================ claim C18
\* The trajectory integrate leaves in the simulator for its current
\* parameters and initial conditions over t.
Integrated(sim, t) ==
    sim.x = IF sim.unstable THEN NanTraj(sim.x0, t)
            ELSE Traj(sim.params, sim.x0, t)

\* C18: the estimator changes simulator state only by calling set_params and
\* integrate: a residual evaluation, for normalize=True and normalize=False,
\* never writes into the simulator's solved trajectory x, and test_chi2
\* writes nothing to the simulator besides calling integrate.
C18_TrajectoryOnlyIntegrated ==
    simulator.x # <<>> =>
        \E t \in TimeSeqs \cup {FitT} : Integrated(simulator, t)

\* What holds of C18: after an evaluation with normalize=True, and after
\* test_chi2, the simulator's trajectory is the integrated one.
C18_NormalizedOrChi2 ==
    (simulator.x # <<>> /\ ((pc = "solving" /\ fit.normalize) \/ ret.op = "test_chi2")) =>
        \E t \in TimeSeqs \cup {FitT} : Integrated(simulator, t)


\* ================================================================ claim C19
\* The residual of the free vector p by the claim's recipe: the trajectory
\* integrated with the parameters and initial conditions assembled from p,
\* normalized when normalize is true, NaN replaced by zero, minus the data.
ResidualOf(p, x_data, normalize) ==
    LET raw == IF simulator.unstable THEN NanTraj(assemble_x0(p), FitT)
               ELSE Traj(assemble_kin_params(p), assemble_x0(p), FitT)
        nrm == IF normalize
               THEN [j \in 1..Len(raw) |-> IF raw[j] = NaN THEN NaN ELSE Log1pTab[raw[j] + 1]]
               ELSE raw
    IN  [j \in 1..Len(raw) |-> (IF nrm[j] = NaN THEN 0 ELSE nrm[j]) - x_data[j]]

\* The point of the latest evaluation: the start, then the solver's trial.
LastEvaluated == IF fit.nevals = 1 THEN fit.p0[fit.i] ELSE fit.bounds[2]

\* C19: every residual evaluation sets the assembled kinetic parameters on
\* the simulator, assembles the initial conditions from the same free vector,
\* integrates with them, normalizes the prediction with log(x+1) exactly when
\* normalize is true (the transform fit_lsq applied once to the data),
\* replaces NaN by zero and returns prediction - data: the trajectory used is
\* the one of that same evaluation, never one left from an earlier
\* evaluation or starting point.
C19_ResidualOfThisEvaluation ==
    pc = "solving" =>
        (LET c0 == SumSq(ResidualOf(fit.p0[fit.i], fit.x_data, fit.normalize))
             c1 == SumSq(ResidualOf(fit.bounds[2], fit.x_data, fit.normalize))
         IN  /\ simulator.params = assemble_kin_params(LastEvaluated)
             /\ simulator.x0 = assemble_x0(LastEvaluated)
             /\ Len(simulator.x) = Len(fit.x_data)
             /\ fit.x_data = IF fit.normalize
                             THEN [j \in 1..Len(fit.args.x_data) |->
                                      Log1pTab[fit.args.x_data[j] + 1]]
                             ELSE fit.args.x_data
             /\ fit.cur.cost = IF fit.nevals = 1 \/ c0 <= c1 THEN c0 ELSE c1)

\* The second start of a second call, on a simulator that earlier
\* evaluations left at another point, with an unstable model.
C19_Witness ==
    /\ pc = "solving" /\ n_params > 0 /\ fit.nevals = 1
    /\ fitted = 1 /\ fit.i = 2 /\ fit.p0[1] # fit.p0[2]
    /\ fit.normalize /\ simulator.unstable
    /\ simulator.params = assemble_kin_params(fit.p0[2])
    /\ fit.cur.cost = SumSq(ResidualOf(fit.p0[2], fit.x_data, TRUE))


\* ================================================================ claim C20
\* C20: when fit_lsq returns, for any number of starting points, the
\* simulator's current kinetic parameters and initial conditions are the
\* ones assembled from the returned popt (the minimum-cost start), not the
\* last vector the solver tried or the last starting point's solution.
C20_SimulatorAtPopt ==
    (FitReturned /\ ~popt.none) =>
        (/\ simulator.params = assemble_kin_params(popt.val)
         /\ simulator.x0 = assemble_x0(popt.val))

\* What holds of C20: with a single start whose solver makes no further
\* evaluation, the simulator is left at the returned popt.
C20_SingleEvaluation ==
    (FitReturned /\ ~popt.none /\ fit.n_p0 = 1 /\ fit.nevals = 1) =>
        (/\ simulator.params = assemble_kin_params(popt.val)
         /\ simulator.x0 = assemble_x0(popt.val))


\* The case of C20 that does not depend on the solver's trials: every start
\* returned after the single evaluation at the start itself.  It fails as
\* well, when the best start is not the last one.
C20_NoTrialsSimulatorAtPopt ==
    (FitReturned /\ ~popt.none /\ fit.nevals = 1 /\ fit.X = fit.p0) =>
        (/\ simulator.params = assemble_kin_params(popt.val)
         /\ simulator.x0 = assemble_x0(popt.val))


\* ================================================================ claim C21
\* C21: popt and cost are always updated together: at every point between
\* operations either both are None or both come from the same starting
\* point's solve of the same fit_lsq call; a fit_lsq call in which a solve
\* raises, for any starting point, leaves popt and cost at the values they
\* had before the call, never a partial result.
C21_PoptCostTogether ==
    /\ [](popt.none = cost.none)
    /\ [](FitReturned =>
            \E i \in 1..Len(fit.X) :
                popt = Some(fit.X[i]) /\ cost = Some(fit.costs[i]))
    /\ []((fit.active /\ ~fit.done) => (popt = fit.old_popt /\ cost = fit.old_cost))
    /\ [][/\ (popt' # popt \/ cost' # cost) =>
                (/\ pc = "select" /\ ret'.raised = "none"
                 /\ \E i \in 1..Len(fit.X) :
                       popt' = Some(fit.X[i]) /\ cost' = Some(fit.costs[i]))
          /\ (fit.active /\ ~fit.done /\ ret'.op = "fit_lsq" /\ ret'.raised # "none") =>
                (popt' = fit.old_popt /\ cost' = fit.old_cost)]_vars

\* A second fit_lsq call raised after a first one had stored its result:
\* the stored pair is still there.
C21_Witness ==
    /\ ret.op = "fit_lsq" /\ ret.raised # "none"
    /\ fitted = 1 /\ ~popt.none /\ ~cost.none

\* A fit_lsq call returned from two starts with different costs.
C21_WitnessTwoStarts ==
    /\ FitReturned /\ Len(fit.costs) = 2 /\ fit.costs[1] < fit.costs[2]
    /\ popt = Some(fit.X[1]) /\ cost = Some(fit.costs[1])


\* ================================================== the kinetics estimators
\* Estimation_MomentKin, Estimation_MomentKinNosp, Estimation_DeterministicKin
\* and Estimation_DeterministicKinNosp: the names of their kinetic rows.
KinParamNames(c) ==
    IF c = "Estimation_MomentKin"
    THEN <<"a", "b", "alpha_a", "alpha_i", "beta", "gamma">>
    ELSE IF c = "Estimation_MomentKinNosp"
    THEN <<"a", "b", "alpha_a", "alpha_i", "gamma">>
    ELSE IF c = "Estimation_DeterministicKinNosp"
    THEN <<"alpha", "gamma">>
    ELSE <<"alpha", "beta", "gamma">>

KinClasses ==
    {"Estimation_MomentKin", "Estimation_MomentKinNosp",
     "Estimation_DeterministicKinNosp", "Estimation_DeterministicKin"}

\* The rows of x0 the constructors hand on: np.zeros((7, 2)) and
\* np.zeros((5, 2)) for the moment classes (lines 370, 422), the caller's x0
\* for the deterministic ones (one row without splicing, two with).
KinX0Rows(c) ==
    IF c = "Estimation_MomentKin" THEN {[sp \in 1..7 |-> ZeroRow]}
    ELSE IF c = "Estimation_MomentKinNosp" THEN {[sp \in 1..5 |-> ZeroRow]}
    ELSE IF c = "Estimation_DeterministicKinNosp"
    THEN {<<ZeroRow>>, <<<<0, Grid>>>>}
    ELSE {<<ZeroRow, ZeroRow>>, <<<<0, Grid>>, <<0, Grid>>>>}

\* A constructor argument of the k-th parameter: the scalar k (fixed) or the
\* range [0, k].
KinArg(k, free) == IF free THEN <<0, k>> ELSE <<k, k>>

\* The accessors of a class: the index each one subscripts popt with, and
\* the accessor a half-life calculator divides ln 2 by.
KinAccessors(c) ==
    IF c = "Estimation_MomentKin"
    THEN {[name |-> "get_alpha_a", idx |-> 2, param |-> "alpha_a", half |-> FALSE],
          [name |-> "get_alpha_i", idx |-> 3, param |-> "alpha_i", half |-> FALSE],
          [name |-> "get_beta", idx |-> 4, param |-> "beta", half |-> FALSE],
          [name |-> "get_gamma", idx |-> 5, param |-> "gamma", half |-> FALSE],
          [name |-> "calc_spl_half_life", idx |-> 4, param |-> "beta", half |-> TRUE],
          [name |-> "calc_deg_half_life", idx |-> 5, param |-> "gamma", half |-> TRUE]}
    ELSE IF c = "Estimation_MomentKinNosp"
    THEN {[name |-> "get_alpha_a", idx |-> 2, param |-> "alpha_a", half |-> FALSE],
          [name |-> "get_alpha_i", idx |-> 3, param |-> "alpha_i", half |-> FALSE],
          [name |-> "get_gamma", idx |-> 4, param |-> "gamma", half |-> FALSE],
          [name |-> "calc_deg_half_life", idx |-> 4, param |-> "gamma", half |-> TRUE]}
    ELSE IF c = "Estimation_DeterministicKinNosp"
    THEN {[name |-> "get_alpha", idx |-> 0, param |-> "alpha", half |-> FALSE],
          [name |-> "get_gamma", idx |-> 1, param |-> "gamma", half |-> FALSE],
          [name |-> "calc_half_life", idx |-> 1, param |-> "gamma", half |-> TRUE]}
    ELSE {[name |-> "get_alpha", idx |-> 0, param |-> "alpha", half |-> FALSE],
          [name |-> "get_beta", idx |-> 1, param |-> "beta", half |-> FALSE],
          [name |-> "get_gamma", idx |-> 2, param |-> "gamma", half |-> FALSE],
          [name |-> "calc_spl_half_life", idx |-> 1, param |-> "beta", half |-> TRUE],
          [name |-> "calc_deg_half_life", idx |-> 2, param |-> "gamma", half |-> TRUE]}

\* return self.popt[idx], and np.log(2) / it for a half-life.
kin_accessor(a) ==
    IF popt.none THEN RaisedCall(a.name, a.param, "TypeError")
    ELSE IF a.idx >= Len(popt.val) THEN RaisedCall(a.name, a.param, "IndexError")
    ELSE OkCall(a.name, a.param,
                IF a.half THEN [ln2_over |-> popt.val[a.idx + 1]]
                ELSE popt.val[a.idx + 1])

\* get_alpha of the moment classes: simulator.fbar(alpha_a, alpha_i) (lines
\* 396-398); in Estimation_MomentKinNosp line 430 reads
\* self.get_alpha_a(). self.get_alpha_i(), an attribute of a number.
kin_get_alpha(c) ==
    IF popt.none THEN RaisedCall("get_alpha", "alpha", "TypeError")
    ELSE IF 2 >= Len(popt.val) THEN RaisedCall("get_alpha", "alpha", "IndexError")
    ELSE IF c = "Estimation_MomentKinNosp"
    THEN RaisedCall("get_alpha", "alpha", "AttributeError")
    ELSE IF 3 >= Len(popt.val) THEN RaisedCall("get_alpha", "alpha", "IndexError")
    ELSE OkCall("get_alpha", "alpha", [fbar |-> <<popt.val[3], popt.val[4]>>])

KinAccessorCall ==
    /\ Idle
    /\ \/ \E a \in KinAccessors(sub.cls) : ManagerCall(kin_accessor(a))
       \/ /\ sub.cls \in {"Estimation_MomentKin", "Estimation_MomentKinNosp"}
          /\ ManagerCall(kin_get_alpha(sub.cls))

InitKin ==
    /\ \E c \in KinClasses :
          \E free \in [1..Len(KinParamNames(c)) -> BOOLEAN], xr \in KinX0Rows(c) :
              LET pr == [k \in 1..Len(KinParamNames(c)) |-> KinArg(k, free[k])]
                  k0 == Construct(pr, xr)
              IN  /\ initialized = TRUE
                  /\ param_ranges = pr
                  /\ x0_ranges = xr
                  /\ fixed_parameters = k0.fixed_parameters
                  /\ ranges = k0.ranges
                  /\ n_tot_kin_params = k0.n_tot_kin_params
                  /\ n_kin_params = k0.n_kin_params
                  /\ n_params = k0.n_params
                  /\ simulator = [NewSimulator("list") EXCEPT !.id = 1]
                  /\ sub = [cls |-> c, kin_param_keys |-> <<>>, models |-> <<>>,
                            param_distributor |-> <<>>]
    /\ popt = NonePopt
    /\ cost = NoneCost
    /\ pc = "idle"
    /\ fit = NoFit
    /\ ret = Ok("__init__", <<>>)
    /\ fitted = 0
    /\ ncalls = 0
    /\ guess = NoGuess
    /\ gof = NoGof

\* fit_lsq with the upper bounds as the single start.
KinFit ==
    /\ pc = "idle" /\ fitted < MaxFits /\ ncalls = 0
    /\ \E x_data \in FitData :
          FitEnter(x_data, TRUE, "1d", <<get_bound(1)>>, 1, NoBounds, "lhs",
                   "None", FALSE)

NextKin ==
    \/ KinFit
    \/ LsqStart
    \/ LsqEval
    \/ LsqDegenerateRaise
    \/ LsqReturn
    \/ FitSelect
    \/ KinAccessorCall

SpecKin == InitKin /\ [][NextKin]_vars

\* ================================================================ claim C22
\* The 1-based row of the named parameter in the assembled kinetic vector.
KinRow(c, param) ==
    CHOOSE k \in 1..Len(KinParamNames(c)) : KinParamNames(c)[k] = param

\* C22: for the kinetics estimators, after a fit and for every combination
\* of fixed and free constructor arguments, each named accessor returns the
\* value of that named parameter in the assembled kinetic vector
\* get_opt_kin_params(), and the half-life calculators return ln(2) divided
\* by that value; fixing an earlier parameter does not shift what is read.
C22_NamedAccessors ==
    (sub.cls \in KinClasses /\ ~popt.none
        /\ \E a \in KinAccessors(sub.cls) : ret.op = a.name) =>
        (/\ ret.raised = "none"
         /\ LET v == assemble_kin_params(popt.val)[KinRow(sub.cls, ret.args)]
            IN  ret.val = IF ret.op \in {"calc_spl_half_life", "calc_deg_half_life",
                                         "calc_half_life"}
                          THEN [ln2_over |-> v] ELSE v)

\* What holds of C22: when every kinetic parameter is free, the accessors
\* that subscript popt read the parameter they name.
C22_AllFree ==
    (sub.cls \in KinClasses /\ ~popt.none /\ n_kin_params = n_tot_kin_params
        /\ \E a \in KinAccessors(sub.cls) : ret.op = a.name) =>
        (/\ ret.raised = "none"
         /\ LET v == assemble_kin_params(popt.val)[KinRow(sub.cls, ret.args)]
            IN  ret.val = IF ret.op \in {"calc_spl_half_life", "calc_deg_half_life",
                                         "calc_half_life"}
                          THEN [ln2_over |-> v] ELSE v)

\* A wrong value without an exception: the accessor returns another
\* parameter's fitted value.
C22_NoSilentShift ==
    (sub.cls \in KinClasses /\ ~popt.none /\ ret.raised = "none"
        /\ ret.op \in {"get_beta", "get_gamma"}) =>
        ret.val = assemble_kin_params(popt.val)[KinRow(sub.cls, ret.args)]


\* ================================================================ claim C23
\* C23: in every auto_fit, the starting point p0 handed to fit_lsq has
\* exactly n_params entries of the re-initialized estimator, in free-vector
\* order, and each entry lies within [get_bound(0)[i], get_bound(1)[i]]; for
\* all input data, including data for which a heuristic estimate is zero
\* (which collapses its range [0, 100 v0] to a fixed point).
C23_P0MatchesFreeVector ==
    (pc = "solve" /\ ~guess.none) =>
        (/\ Len(fit.p0) = 1
         /\ Len(fit.p0[1]) = n_params
         /\ \A i \in 1..n_params :
               /\ get_bound(0)[i] <= fit.p0[1][i]
               /\ fit.p0[1][i] <= get_bound(1)[i]
               /\ ranges[i] = <<0, 100 * fit.p0[1][i]>>)

\* What holds of C23: when no estimate is zero, p0 lines up with the free
\* vector of the re-initialized estimator.
C23_NonZeroEstimates ==
    (pc = "solve" /\ ~guess.none /\ \A i \in 1..Len(guess.p0) : guess.p0[i] > 0) =>
        (/\ Len(fit.p0[1]) = n_params
         /\ \A i \in 1..n_params :
               /\ get_bound(0)[i] <= fit.p0[1][i]
               /\ fit.p0[1][i] <= get_bound(1)[i]
               /\ ranges[i] = <<0, 100 * fit.p0[1][i]>>)


\* ================================================================ claim C24
\* The 0-based rows of the kinetic ranges that a sub-model's distributor
\* entry lists.
Consumed(m) == Range(sub.param_distributor[m])

\* C24: after Mixture_KinDeg_NoSwitching._initialize, for every combination
\* of sub-model types and of beta given or None, the distributor map and the
\* kinetic-parameter ranges agree: every index listed in param_distributor
\* is a valid row of the ranges, every free kinetic row is consumed by at
\* least one sub-model, and gamma (and beta when given) is shared by both
\* sub-models while each sub-model has its own alpha slot.
C24_DistributorAgrees ==
    (initialized /\ sub.cls = MixtureClass) =>
        (LET n == Len(param_ranges)
             gammaRow == n - 1
         IN  /\ \A m \in 1..2 : \A k \in Consumed(m) : 0 <= k /\ k < n
             /\ \A k \in 0..(n - 1) :
                   IsFreeRange(param_ranges[k + 1]) => \E m \in 1..2 : k \in Consumed(m)
             /\ gammaRow \in Consumed(1) /\ gammaRow \in Consumed(2)
             /\ n = 4 => (2 \in Consumed(1) /\ 2 \in Consumed(2))
             /\ 0 \in Consumed(1) /\ 0 \notin Consumed(2)
             /\ 1 \in Consumed(2) /\ 1 \notin Consumed(1))

\* What holds of C24: the map and the ranges agree when beta is given
\* exactly for a first model with splicing.
C24_MatchingTypes ==
    (initialized /\ sub.cls = MixtureClass
        /\ (Len(param_ranges) = 4 <=> ~sub.models[1].nosplicing)) =>
        (LET n == Len(param_ranges)
         IN  /\ \A m \in 1..2 : \A k \in Consumed(m) : 0 <= k /\ k < n
             /\ \A k \in 0..(n - 1) :
                   IsFreeRange(param_ranges[k + 1]) => \E m \in 1..2 : k \in Consumed(m)
             /\ (n - 1) \in Consumed(1) /\ (n - 1) \in Consumed(2)
             /\ n = 4 => (2 \in Consumed(1) /\ 2 \in Consumed(2))
             /\ 0 \in Consumed(1) /\ 0 \notin Consumed(2)
             /\ 1 \in Consumed(2) /\ 1 \notin Consumed(1))

\* The violation auto_fit itself produces: a first model without splicing
\* and a second with splicing.
C24_AutoFitAgrees ==
    (initialized /\ sub.cls = MixtureClass /\ ~guess.none) =>
        (\A k \in 0..(Len(param_ranges) - 1) :
            IsFreeRange(param_ranges[k + 1]) => \E m \in 1..2 : k \in Consumed(m))

====
